---------------------------- MODULE Spec2Model ----------------------------
(***************************************************************************)
(* Model of shaka.hls.ManifestTextParser (lib/hls/manifest_text_parser.js) *)
(* and of the HLS document classes it builds (Playlist, Tag, Segment,      *)
(* Attribute).                                                             *)
(*                                                                         *)
(* Text is modelled at the level of characters: a JavaScript string is a   *)
(* sequence of one-character strings, so that the regular expressions of   *)
(* STATIC_PATTERNS, String.trim, String.split and Number() are computed,   *)
(* not assumed.  Objects that the code shares by reference (Tag) live in a *)
(* heap indexed by the tag id; the lists of the code hold those ids.       *)
(* JavaScript indices are kept 0-based; a TLA+ sequence s models the array *)
(* whose element k is s[k + 1].                                            *)
(***************************************************************************)
EXTENDS Integers, Sequences, FiniteSets, TLC

(***************************************************************************)
(* Values of the language.                                                 *)
(***************************************************************************)

\* null as a reference to a Tag (tag ids are >= 0).
Null == -1

\* An optional value: None is null / undefined, Some(x) is the value x.
None == <<>>
Some(x) == <<x>>
Val(o) == o[1]

\* A JavaScript number: an integer or NaN.
Num(n) == [nan |-> FALSE, v |-> n]
NaN == [nan |-> TRUE, v |-> 0]

\* U+2028 LINE SEPARATOR, one character.
LS == "<LS>"

\* shaka.hls.PlaylistType
MASTER == 0
MEDIA == 1

(***************************************************************************)
(* Names of directives and attributes, as strings.                         *)
(***************************************************************************)
EXTINF == <<"E", "X", "T", "I", "N", "F">>
EXT_X_BYTERANGE ==
    << "E", "X", "T", "-", "X", "-", "B", "Y", "T", "E", "R", "A", "N", "G",
       "E" >>
EXT_X_DISCONTINUITY ==
    << "E", "X", "T", "-", "X", "-", "D", "I", "S", "C", "O", "N", "T", "I",
       "N", "U", "I", "T", "Y" >>
EXT_X_PROGRAM_DATE_TIME ==
    << "E", "X", "T", "-", "X", "-", "P", "R", "O", "G", "R", "A", "M", "-",
       "D", "A", "T", "E", "-", "T", "I", "M", "E" >>
EXT_X_KEY == <<"E", "X", "T", "-", "X", "-", "K", "E", "Y">>
EXT_X_DATERANGE ==
    << "E", "X", "T", "-", "X", "-", "D", "A", "T", "E", "R", "A", "N", "G",
       "E" >>
EXT_X_MAP == <<"E", "X", "T", "-", "X", "-", "M", "A", "P">>
EXT_X_GAP == <<"E", "X", "T", "-", "X", "-", "G", "A", "P">>
EXT_X_TILES == <<"E", "X", "T", "-", "X", "-", "T", "I", "L", "E", "S">>
EXT_X_BITRATE ==
    << "E", "X", "T", "-", "X", "-", "B", "I", "T", "R", "A", "T", "E" >>
EXT_X_PART == <<"E", "X", "T", "-", "X", "-", "P", "A", "R", "T">>
EXT_X_PRELOAD_HINT ==
    << "E", "X", "T", "-", "X", "-", "P", "R", "E", "L", "O", "A", "D", "-",
       "H", "I", "N", "T" >>
EXT_X_TARGETDURATION ==
    << "E", "X", "T", "-", "X", "-", "T", "A", "R", "G", "E", "T", "D", "U",
       "R", "A", "T", "I", "O", "N" >>
EXT_X_MEDIA_SEQUENCE ==
    << "E", "X", "T", "-", "X", "-", "M", "E", "D", "I", "A", "-", "S", "E",
       "Q", "U", "E", "N", "C", "E" >>
EXT_X_DISCONTINUITY_SEQUENCE ==
    << "E", "X", "T", "-", "X", "-", "D", "I", "S", "C", "O", "N", "T", "I",
       "N", "U", "I", "T", "Y", "-", "S", "E", "Q", "U", "E", "N", "C", "E" >>
EXT_X_PLAYLIST_TYPE ==
    << "E", "X", "T", "-", "X", "-", "P", "L", "A", "Y", "L", "I", "S", "T",
       "-", "T", "Y", "P", "E" >>
EXT_X_I_FRAMES_ONLY ==
    << "E", "X", "T", "-", "X", "-", "I", "-", "F", "R", "A", "M", "E", "S",
       "-", "O", "N", "L", "Y" >>
EXT_X_ENDLIST ==
    << "E", "X", "T", "-", "X", "-", "E", "N", "D", "L", "I", "S", "T" >>
EXT_X_SERVER_CONTROL ==
    << "E", "X", "T", "-", "X", "-", "S", "E", "R", "V", "E", "R", "-", "C",
       "O", "N", "T", "R", "O", "L" >>
EXT_X_SKIP == <<"E", "X", "T", "-", "X", "-", "S", "K", "I", "P">>
EXT_X_PART_INF ==
    << "E", "X", "T", "-", "X", "-", "P", "A", "R", "T", "-", "I", "N", "F" >>
EXT_X_MEDIA == <<"E", "X", "T", "-", "X", "-", "M", "E", "D", "I", "A">>
EXT_X_STREAM_INF ==
    << "E", "X", "T", "-", "X", "-", "S", "T", "R", "E", "A", "M", "-", "I",
       "N", "F" >>
EXT_X_DEFINE == <<"E", "X", "T", "-", "X", "-", "D", "E", "F", "I", "N", "E">>
EXT_X_START == <<"E", "X", "T", "-", "X", "-", "S", "T", "A", "R", "T">>
EXT_X_IMAGE_STREAM_INF ==
    << "E", "X", "T", "-", "X", "-", "I", "M", "A", "G", "E", "-", "S", "T",
       "R", "E", "A", "M", "-", "I", "N", "F" >>
EXT_X_I_FRAME_STREAM_INF ==
    << "E", "X", "T", "-", "X", "-", "I", "-", "F", "R", "A", "M", "E", "-",
       "S", "T", "R", "E", "A", "M", "-", "I", "N", "F" >>
EXT_X_SESSION_KEY ==
    << "E", "X", "T", "-", "X", "-", "S", "E", "S", "S", "I", "O", "N", "-",
       "K", "E", "Y" >>
EXT_X_SESSION_DATA ==
    << "E", "X", "T", "-", "X", "-", "S", "E", "S", "S", "I", "O", "N", "-",
       "D", "A", "T", "A" >>
EXT_X_CONTENT_STEERING ==
    << "E", "X", "T", "-", "X", "-", "C", "O", "N", "T", "E", "N", "T", "-",
       "S", "T", "E", "E", "R", "I", "N", "G" >>
A_URI == <<"U", "R", "I">>
A_TYPE == <<"T", "Y", "P", "E">>
A_SKIPPED_SEGMENTS ==
    << "S", "K", "I", "P", "P", "E", "D", "-", "S", "E", "G", "M", "E", "N",
       "T", "S" >>
V_PART == <<"P", "A", "R", "T">>
V_MAP == <<"M", "A", "P">>

(***************************************************************************)
(* Strings.                                                                *)
(***************************************************************************)

\* The line terminators of ECMAScript regular expressions ('.', '^' and '$'
\* under the m flag).
IsLineTerminator(c) == c \in {"\n", "\r", LS}

\* The characters String.prototype.trim removes.
IsTrimSpace(c) == c \in {" ", "\t", "\n", "\r", LS}

StartsWith(s, p) == Len(s) >= Len(p) /\ SubSeq(s, 1, Len(p)) = p

\* The index of the first c at or after position from (1-based), or 0.
IndexOf(s, c, from) ==
    LET hits == {k \in from..Len(s) : s[k] = c}
    IN  IF hits = {} THEN 0 ELSE CHOOSE k \in hits : \A j \in hits : k <= j

\* The first index at or after from whose character is not in the run
\* described by InRun, or Len(s) + 1.
RunEnd(s, from, InRun(_)) ==
    LET stops == {k \in from..Len(s) : ~InRun(s[k])}
    IN  IF stops = {} THEN Len(s) + 1
        ELSE CHOOSE k \in stops : \A j \in stops : k <= j

\* String.prototype.trim
Trim(s) ==
    LET keep == {k \in 1..Len(s) : ~IsTrimSpace(s[k])}
    IN  IF keep = {} THEN <<>>
        ELSE LET lo == CHOOSE k \in keep : \A j \in keep : k <= j
                 hi == CHOOSE k \in keep : \A j \in keep : k >= j
             IN  SubSeq(s, lo, hi)

\* The concatenation of Piece(lo), ..., Piece(hi).
RECURSIVE Concat(_, _, _)
Concat(Piece(_), lo, hi) ==
    IF lo > hi THEN <<>>
    ELSE IF lo = hi THEN Piece(lo)
         ELSE Concat(Piece, lo, (lo + hi) \div 2)
              \o Concat(Piece, (lo + hi) \div 2 + 1, hi)

\* str.replace(/\r\n|\r(?=[^\n]|$)/gm, '\n'): every \r\n and every other \r
\* becomes \n (under the m flag '$' also matches before a line terminator, so
\* the lookahead holds for every \r that is not followed by \n).
NormalizeNewlines(s) ==
    LET Piece(k) == IF s[k] = "\r" THEN <<"\n">>
                    ELSE IF s[k] = "\n" /\ k > 1 /\ s[k - 1] = "\r" THEN <<>>
                         ELSE <<s[k]>>
    IN  Concat(Piece, 1, Len(s))

\* str.split(/\n+/m): the pieces between maximal runs of \n.  A run at the
\* start or at the end of the string leaves an empty piece there; the empty
\* string gives [''].
Split(s) ==
    LET IsStart(k) == \/ k = 1
                      \/ /\ s[k - 1] = "\n"
                         /\ (k > Len(s) \/ s[k] # "\n")
        Piece(k) ==
            IF IsStart(k)
            THEN <<SubSeq(s, k, RunEnd(s, k, LAMBDA c : c # "\n") - 1)>>
            ELSE <<>>
    IN  Concat(Piece, 1, Len(s) + 1)

\* The value of a string of decimal digits.
DigitValue(c) ==
    CASE c = "0" -> 0 [] c = "1" -> 1 [] c = "2" -> 2 [] c = "3" -> 3
      [] c = "4" -> 4 [] c = "5" -> 5 [] c = "6" -> 6 [] c = "7" -> 7
      [] c = "8" -> 8 [] c = "9" -> 9
IsDigit(c) == c \in {"0", "1", "2", "3", "4", "5", "6", "7", "8", "9"}
RECURSIVE DecimalValue(_)
DecimalValue(s) ==
    IF s = <<>> THEN 0
    ELSE 10 * DecimalValue(SubSeq(s, 1, Len(s) - 1)) + DigitValue(s[Len(s)])

\* Number(string): surrounding white space is ignored, the empty string is 0,
\* an optionally signed run of decimal digits is its value, anything else is
\* NaN.  (Fractions, exponents, radix prefixes and Infinity do not occur in
\* the strings of this model.)
ToNumber(s) ==
    LET t == Trim(s)
        signed == t # <<>> /\ t[1] \in {"+", "-"}
        digits == IF signed THEN Tail(t) ELSE t
    IN  IF t = <<>> THEN Num(0)
        ELSE IF digits # <<>> /\ \A k \in 1..Len(digits) : IsDigit(digits[k])
             THEN Num(IF signed /\ t[1] = "-" THEN 0 - DecimalValue(digits)
                      ELSE DecimalValue(digits))
             ELSE NaN

\* Boolean(number): 0 and NaN are falsy.
TruthyNumber(n) == ~n.nan /\ n.v # 0

(***************************************************************************)
(* shaka.hls.Utils and shaka.util.TextParser (not part of the sources at   *)
(* hand; modelled from their use and from the specification).              *)
(***************************************************************************)

\* shaka.hls.Utils.isComment: /^#(?!EXT)/m.test(line): at the start of the
\* line, or after a line terminator inside it, a '#' that does not begin
\* '#EXT'.
isComment(line) ==
    \E k \in 1..Len(line) :
        /\ k = 1 \/ IsLineTerminator(line[k - 1])
        /\ line[k] = "#"
        /\ ~StartsWith(SubSeq(line, k + 1, Len(line)), <<"E", "X", "T">>)

\* TextParser.atEnd at position pos (0-based) of data.
atEnd(d, pos) == pos >= Len(d)

\* TextParser.skipWhitespace: readRegex(/[ \t]+/gm); the new position.
skipWhitespace(d, pos) ==
    IF atEnd(d, pos) THEN pos
    ELSE RunEnd(d, pos + 1, LAMBDA c : c \in {" ", "\t"}) - 1

(***************************************************************************)
(* STATIC_PATTERNS.  A match is a record; matched = FALSE is null.         *)
(***************************************************************************)

NoMatch == [matched |-> FALSE]

\* header: /^#EXTM3U($|[ \t\n])/m tested on a line: '#EXTM3U' at the start of
\* the line or after a line terminator, followed by the end of the line, a
\* line terminator, a space or a tab.
header(line) ==
    \E k \in 1..Len(line) :
        /\ k = 1 \/ IsLineTerminator(line[k - 1])
        /\ StartsWith(SubSeq(line, k, Len(line)),
                      <<"#", "E", "X", "T", "M", "3", "U">>)
        /\ \/ k + 7 > Len(line)
           \/ IsLineTerminator(line[k + 7])
           \/ line[k + 7] \in {" ", "\t"}

\* tagBlocks: /^#(EXT[^:]*)(?::(.*))?$/ matched on a word.  Group 1 is the
\* name (up to the first ':'), group 2 the rest after that ':' (undefined
\* without a ':'); '.' matches no line terminator, so a line terminator after
\* the first ':' makes the match fail.
tagBlocks(word) ==
    LET colon == IndexOf(word, ":", 1)
    IN  IF ~StartsWith(word, <<"#", "E", "X", "T">>) THEN NoMatch
        ELSE IF colon = 0
             THEN [matched |-> TRUE, name |-> Tail(word), data |-> None]
             ELSE IF \E k \in (colon + 1)..Len(word) : IsLineTerminator(word[k])
                  THEN NoMatch
                  ELSE [matched |-> TRUE,
                        name |-> SubSeq(word, 2, colon - 1),
                        data |-> Some(SubSeq(word, colon + 1, Len(word)))]

\* valueRegex: /^([^,=]+)(?:,|$)/g read at the start of the data: a non-empty
\* run of characters other than ',' and '=', followed by ',' or by the end.
\* Group 1 is the run; length counts the ',' too.
valueRegex(d) ==
    LET e == RunEnd(d, 1, LAMBDA c : c \notin {",", "="})
    IN  IF e = 1 THEN NoMatch
        ELSE IF e > Len(d)
             THEN [matched |-> TRUE, value |-> SubSeq(d, 1, e - 1),
                   length |-> e - 1]
             ELSE IF d[e] = ","
                  THEN [matched |-> TRUE, value |-> SubSeq(d, 1, e - 1),
                        length |-> e]
                  ELSE NoMatch

\* attributeRegex: /([^=]+)=(?:"([^"]*)"|([^",]*))(?:,|$)/g read at position
\* pos (0-based) by TextParser.readRegex, which returns null at the end of the
\* data and when the leftmost match does not start at pos.  Group 1 is the
\* key, group 2 the quoted value, group 3 the unquoted value.
attributeRegex(d, pos) ==
    LET s == pos + 1
        eq == IndexOf(d, "=", s)
        v == eq + 1
        \* "([^"]*)" followed by ',' or the end
        q == IF v <= Len(d) /\ d[v] = "\"" THEN IndexOf(d, "\"", v + 1) ELSE 0
        quoted == q # 0 /\ (q = Len(d) \/ d[q + 1] = ",")
        \* ([^",]*) followed by ',' or the end
        u == RunEnd(d, v, LAMBDA c : c \notin {"\"", ","})
        unquoted == u > Len(d) \/ d[u] = ","
    IN  IF atEnd(d, pos) \/ eq = 0 \/ eq = s THEN NoMatch
        ELSE IF quoted
             THEN [matched |-> TRUE, key |-> SubSeq(d, s, eq - 1),
                   g2 |-> Some(SubSeq(d, v + 1, q - 1)), g3 |-> None,
                   length |-> (IF q = Len(d) THEN q ELSE q + 1) - pos]
             ELSE IF unquoted
                  THEN [matched |-> TRUE, key |-> SubSeq(d, s, eq - 1),
                        g2 |-> None, g3 |-> Some(SubSeq(d, v, u - 1)),
                        length |-> (IF u > Len(d) THEN Len(d) ELSE u) - pos]
                  ELSE NoMatch

(***************************************************************************)
(* shaka.hls.Attribute, shaka.hls.Tag, shaka.hls.Segment,                  *)
(* shaka.hls.Playlist.                                                     *)
(***************************************************************************)

\* new shaka.hls.Attribute(name, value); value is optional text (the parser
\* passes undefined in two places).
Attribute(name, value) == [name |-> name, value |-> value]

\* new shaka.hls.Tag(id, name, attributes, value = null)
Tag(id, name, attributes, value) ==
    [id |-> id, name |-> name, attributes |-> attributes, value |-> value]

\* Tag.addAttribute
addAttribute(tag, attribute) ==
    [tag EXCEPT !.attributes = Append(@, attribute)]

\* Tag.setName
setName(tag, name) == [tag EXCEPT !.name = name]

\* Tag.getAttribute: the attributes called name; the first of them, or null.
attributesNamed(tag, name) ==
    SelectSeq(tag.attributes, LAMBDA attr : attr.name = name)

\* goog.asserts.assert(attributes.length < 2, 'A tag should not have
\* multiple attributes with the same name!'): does the assertion hold?
getAttributeAsserts(tag, name) == Len(attributesNamed(tag, name)) < 2

getAttribute(tag, name) ==
    IF attributesNamed(tag, name) # <<>>
    THEN Some(attributesNamed(tag, name)[1]) ELSE None

\* Tag.getAttributeValue(name) (no default value): the value of that
\* attribute, or null.
getAttributeValue(tag, name) ==
    IF getAttribute(tag, name) # None
    THEN Val(getAttribute(tag, name)).value ELSE None

\* new shaka.hls.Segment(verbatimSegmentUri, tags, computed, partialSegments)
Segment(verbatimSegmentUri, tags_, computed_, partialSegments) ==
    [verbatimSegmentUri |-> verbatimSegmentUri, tags |-> tags_,
     computed |-> computed_, partialSegments |-> partialSegments]

\* new shaka.hls.Playlist(type, tags, computed, segments): this.segments is
\* segments || null.  An array, empty or not, is truthy and is kept; only a
\* missing argument becomes null.
Playlist(type, tags_, computed_, segments_) ==
    [type |-> type, tags |-> tags_, computed |-> computed_,
     segments |-> IF segments_ = None THEN None ELSE segments_]

(***************************************************************************)
(* ManifestTextParser.parseTag                                             *)
(***************************************************************************)

\* blockAttrs[2] || blockAttrs[3]: the quoted value unless it is missing or
\* empty, else the unquoted value (undefined after a match of "").
attrValue(m) == IF m.g2 # None /\ Val(m.g2) # <<>> THEN m.g2 ELSE m.g3

\* The loop of parseTag over attributeRegex, from position pos of the data.
RECURSIVE readAttributes(_, _)
readAttributes(d, pos) ==
    LET blockAttrs == attributeRegex(d, pos)
    IN  IF ~blockAttrs.matched THEN <<>>
        ELSE <<Attribute(blockAttrs.key, attrValue(blockAttrs))>>
             \o readAttributes(d, skipWhitespace(d, pos + blockAttrs.length))

\* Does parseTag(id, word) throw INVALID_HLS_TAG ?
parseTagThrows(word) == ~tagBlocks(word).matched

\* parseTag(id, word) for a word that matches tagBlocks.
parseTag(id, word) ==
    LET blocks == tagBlocks(word)
        hasData == blocks.data # None /\ Val(blocks.data) # <<>>
        d == Val(blocks.data)
        blockValue == IF hasData THEN valueRegex(d) ELSE NoMatch
        value == IF blockValue.matched THEN Some(blockValue.value) ELSE None
        pos == IF blockValue.matched THEN blockValue.length ELSE 0
        attributes == IF hasData THEN readAttributes(d, pos) ELSE <<>>
    IN  Tag(id, blocks.name, attributes, value)

(***************************************************************************)
(* Arrays that may have holes (new Array(n)): a length and the elements    *)
(* present, by 0-based index.                                              *)
(***************************************************************************)

NewArray(n) == [length |-> n, items |-> <<>>]

\* array[k] = x, for k < array.length
ArraySet(array, k, x) ==
    [array EXCEPT !.items = [j \in DOMAIN @ \cup {k} |->
                                IF j = k THEN x ELSE @[j]]]

\* array.push(x)
ArrayPush(array, x) ==
    [length |-> array.length + 1,
     items |-> [j \in DOMAIN array.items \cup {array.length} |->
                   IF j = array.length THEN x ELSE array.items[j]]]

\* array.slice(0, n), for n <= array.length: holes stay holes.
ArraySlice(array, n) ==
    [length |-> n,
     items |-> [j \in {k \in DOMAIN array.items : k < n} |-> array.items[j]]]

(***************************************************************************)
(* The classification tables.                                              *)
(***************************************************************************)

\* A faulty variant of MEDIA_PLAYLIST_TAGS: EXT-X-ENDLIST is missing.
MEDIA_PLAYLIST_TAGS_WithoutEndList ==
    {EXT_X_TARGETDURATION, EXT_X_MEDIA_SEQUENCE, EXT_X_DISCONTINUITY_SEQUENCE,
     EXT_X_PLAYLIST_TYPE, EXT_X_I_FRAMES_ONLY, EXT_X_SERVER_CONTROL,
     EXT_X_SKIP, EXT_X_PART_INF, EXT_X_DATERANGE}

\* A faulty variant of MEDIA_PLAYLIST_TAGS: the declarations of a master
\* playlist are in the table too.
MEDIA_PLAYLIST_TAGS_WithDeclarations ==
    {EXT_X_TARGETDURATION, EXT_X_MEDIA_SEQUENCE, EXT_X_DISCONTINUITY_SEQUENCE,
     EXT_X_PLAYLIST_TYPE, EXT_X_I_FRAMES_ONLY, EXT_X_ENDLIST,
     EXT_X_SERVER_CONTROL, EXT_X_SKIP, EXT_X_PART_INF, EXT_X_DATERANGE,
     EXT_X_STREAM_INF, EXT_X_MEDIA}

\* A faulty variant of MEDIA_PLAYLIST_TAGS: EXT-X-DATERANGE is in the table
\* of the segment directives only.
MEDIA_PLAYLIST_TAGS_WithoutDateRange ==
    {EXT_X_TARGETDURATION, EXT_X_MEDIA_SEQUENCE, EXT_X_DISCONTINUITY_SEQUENCE,
     EXT_X_PLAYLIST_TYPE, EXT_X_I_FRAMES_ONLY, EXT_X_ENDLIST,
     EXT_X_SERVER_CONTROL, EXT_X_SKIP, EXT_X_PART_INF}

MEDIA_PLAYLIST_TAGS ==
    {EXT_X_TARGETDURATION, EXT_X_MEDIA_SEQUENCE, EXT_X_DISCONTINUITY_SEQUENCE,
     EXT_X_PLAYLIST_TYPE, EXT_X_I_FRAMES_ONLY, EXT_X_ENDLIST,
     EXT_X_SERVER_CONTROL, EXT_X_SKIP, EXT_X_PART_INF, EXT_X_DATERANGE}

SEGMENT_TAGS ==
    {EXTINF, EXT_X_BYTERANGE, EXT_X_DISCONTINUITY, EXT_X_PROGRAM_DATE_TIME,
     EXT_X_KEY, EXT_X_DATERANGE, EXT_X_MAP, EXT_X_GAP, EXT_X_TILES}

(***************************************************************************)
(* The computed structures.                                                *)
(***************************************************************************)

createDefaultComputed_ ==
    [extinf |-> Null, extinfDuration |-> Num(0), map |-> Null,
     mapId |-> Null, gap |-> Null, byterange |-> Null,
     discontinuity |-> Null, keys |-> <<>>, bitrate |-> Num(0),
     dateTime |-> Null, tiles |-> Null]

\* A faulty variant of createDefaultSegmentsComputed_: the last duration is
\* 0, not null.
createDefaultSegmentsComputed_ZeroDuration ==
    [count |-> 0, gapCount |-> 0, lastExtinfDuration |-> Some(Num(0))]

createDefaultSegmentsComputed_ ==
    [count |-> 0, gapCount |-> 0, lastExtinfDuration |-> None]

createDefaultTagIndex_ ==
    [mediaSequence |-> Num(0), skippedSegments |-> Num(0),
     discontinuitySequence |-> Num(-1),
     skipTag |-> Null, endListTag |-> Null, serverControlTag |-> Null,
     playlistTypeTag |-> Null, startTag |-> Null, partInfTag |-> Null,
     targetDurationTag |-> Null,
     variableTags |-> <<>>, dateRangeTags |-> <<>>, mediaTags |-> <<>>,
     variantTags |-> <<>>, imageTags |-> <<>>, iFrameTags |-> <<>>,
     sessionKeyTags |-> <<>>, sessionDataTags |-> <<>>,
     contentSteeringTags |-> <<>>]

\* tag.value.split(',')[0]
firstCommaPiece(s) == SubSeq(s, 1, RunEnd(s, 1, LAMBDA c : c # ",") - 1)

\* updateComputedForTag_ throws a TypeError when it reads tag.value.split of
\* an EXTINF tag that has no value (tag.value is null).
updateComputedThrows(c, tag) ==
    tag.name = EXTINF /\ c.extinf = Null /\ tag.value = None

\* A faulty variant of firstTag: the last tag is kept.
firstTagReplaced(current, id) == id

\* if (!computed.gap) { computed.gap = tag; }, and the like for byterange,
\* discontinuity, dateTime and tiles.
firstTag(current, id) == IF current = Null THEN id ELSE current

\* updateComputedForTag_(computed, tag), when it does not throw.
updateComputedForTag_(c, tag) ==
    CASE tag.name = EXTINF ->
           IF c.extinf = Null
           THEN [c EXCEPT !.extinf = tag.id,
                          !.extinfDuration =
                              ToNumber(firstCommaPiece(Val(tag.value)))]
           ELSE c
      [] tag.name = EXT_X_MAP ->
           IF c.map = Null
           THEN [c EXCEPT !.map = tag.id, !.mapId = tag.id] ELSE c
      [] tag.name = EXT_X_GAP ->
           [c EXCEPT !.gap = firstTag(@, tag.id)]
      [] tag.name = EXT_X_BYTERANGE ->
           [c EXCEPT !.byterange = firstTag(@, tag.id)]
      [] tag.name = EXT_X_DISCONTINUITY ->
           [c EXCEPT !.discontinuity = firstTag(@, tag.id)]
      [] tag.name = EXT_X_KEY -> [c EXCEPT !.keys = Append(@, tag.id)]
      [] tag.name = EXT_X_PROGRAM_DATE_TIME ->
           [c EXCEPT !.dateTime = firstTag(@, tag.id)]
      [] tag.name = EXT_X_TILES ->
           [c EXCEPT !.tiles = firstTag(@, tag.id)]
      [] tag.name = EXT_X_BITRATE ->
           IF ~TruthyNumber(c.bitrate)
           THEN [c EXCEPT !.bitrate =
                     IF tag.value # None THEN ToNumber(Val(tag.value))
                     ELSE Num(0)]
           ELSE c
      [] OTHER -> c

\* A faulty variant of valueOrNumber: the number, not the text, is tested,
\* so that a value of 0 gives the fallback.
valueOrNumberOfTruthyNumber(tag, fallback) ==
    IF tag.value # None /\ TruthyNumber(ToNumber(Val(tag.value)))
    THEN ToNumber(Val(tag.value)) ELSE Num(fallback)

\* Number(tag.value || fallback)
valueOrNumber(tag, fallback) ==
    IF tag.value # None /\ Val(tag.value) # <<>>
    THEN ToNumber(Val(tag.value)) ELSE Num(fallback)

\* A faulty variant of pushTag: only the first tag is taken.
pushTagOnce(list, id) == IF list = <<>> THEN Append(list, id) ELSE list

\* index.variableTags.push(tag), and the like for the other lists of the
\* tag index.
pushTag(list, id) == Append(list, id)

\* updateTagIndexForTag_(index, tag)
updateTagIndexForTag_(index, tag) ==
    CASE tag.name = EXT_X_MEDIA_SEQUENCE ->
           [index EXCEPT !.mediaSequence = valueOrNumber(tag, 0)]
      [] tag.name = EXT_X_SKIP ->
           LET skipped == getAttributeValue(tag, A_SKIPPED_SEGMENTS)
           IN  [index EXCEPT !.skipTag = tag.id,
                             !.skippedSegments =
                                 IF skipped # None /\ Val(skipped) # <<>>
                                 THEN ToNumber(Val(skipped)) ELSE Num(0)]
      [] tag.name = EXT_X_DEFINE ->
           [index EXCEPT !.variableTags = pushTag(@, tag.id)]
      [] tag.name = EXT_X_ENDLIST ->
           IF index.endListTag = Null
           THEN [index EXCEPT !.endListTag = tag.id] ELSE index
      [] tag.name = EXT_X_SERVER_CONTROL ->
           IF index.serverControlTag = Null
           THEN [index EXCEPT !.serverControlTag = tag.id] ELSE index
      [] tag.name = EXT_X_PLAYLIST_TYPE ->
           IF index.playlistTypeTag = Null
           THEN [index EXCEPT !.playlistTypeTag = tag.id] ELSE index
      [] tag.name = EXT_X_START ->
           IF index.startTag = Null
           THEN [index EXCEPT !.startTag = tag.id] ELSE index
      [] tag.name = EXT_X_PART_INF ->
           IF index.partInfTag = Null
           THEN [index EXCEPT !.partInfTag = tag.id] ELSE index
      [] tag.name = EXT_X_TARGETDURATION ->
           IF index.targetDurationTag = Null
           THEN [index EXCEPT !.targetDurationTag = tag.id] ELSE index
      [] tag.name = EXT_X_DATERANGE ->
           [index EXCEPT !.dateRangeTags = pushTag(@, tag.id)]
      [] tag.name = EXT_X_DISCONTINUITY_SEQUENCE ->
           [index EXCEPT !.discontinuitySequence = valueOrNumber(tag, -1)]
      [] tag.name = EXT_X_MEDIA ->
           [index EXCEPT !.mediaTags = pushTag(@, tag.id)]
      [] tag.name = EXT_X_STREAM_INF ->
           [index EXCEPT !.variantTags = pushTag(@, tag.id)]
      [] tag.name = EXT_X_IMAGE_STREAM_INF ->
           [index EXCEPT !.imageTags = pushTag(@, tag.id)]
      [] tag.name = EXT_X_I_FRAME_STREAM_INF ->
           [index EXCEPT !.iFrameTags = pushTag(@, tag.id)]
      [] tag.name = EXT_X_SESSION_KEY ->
           [index EXCEPT !.sessionKeyTags = pushTag(@, tag.id)]
      [] tag.name = EXT_X_SESSION_DATA ->
           [index EXCEPT !.sessionDataTags = pushTag(@, tag.id)]
      [] tag.name = EXT_X_CONTENT_STEERING ->
           [index EXCEPT !.contentSteeringTags = pushTag(@, tag.id)]
      [] OTHER -> index

(***************************************************************************)
(* The state of one parser instance and of the parsePlaylist call on it.   *)
(***************************************************************************)

VARIABLES
    globalId_,          \* this.globalId_
    heap,               \* the Tag objects created so far, by id
    pc,                 \* "idle", "scan", "segments", "returned", "thrown"
    lines,              \* parsePlaylist: lines
    i,                  \* parsePlaylist: the loop index
    skip,               \* parsePlaylist: skip
    playlistType,       \* parsePlaylist: playlistType
    typeDetected,       \* parsePlaylist: typeDetected
    tags,               \* parsePlaylist: tags (parseSegments_: playlistTags)
    tagIndex,           \* parsePlaylist: tagIndex
    startIndex,         \* parseSegments_: startIndex (0 before it is called)
    lineIndex,          \* parseSegments_: the loop index
    segments,           \* parseSegments_: segments
    segmentIndex,       \* parseSegments_: segmentIndex
    segmentTags,        \* parseSegments_: segmentTags
    partialSegmentTags, \* parseSegments_: partialSegmentTags
    currentMapTag,      \* parseSegments_: currentMapTag
    gapCount,           \* parseSegments_: gapCount
    lastExtinfDuration, \* parseSegments_: lastExtinfDuration
    computed,           \* parseSegments_: computed
    result,             \* the Playlist returned, or None
    error,              \* the error thrown, or NoError
    buffer,             \* parsePlaylist: data, as text
    previous,           \* the Playlist that the call before returned, or None
    tagStr              \* what tag.toString() returned, or None

scanVars == <<i, skip, playlistType, typeDetected>>
listVars == <<tags, tagIndex>>
segVars ==
    <<startIndex, lineIndex, segments, segmentIndex, segmentTags,
      partialSegmentTags, currentMapTag, gapCount, lastExtinfDuration,
      computed>>
callVars == <<buffer, previous, tagStr>>
vars == <<globalId_, heap, pc, lines, scanVars, listVars, segVars, result,
          error, callVars>>

\* new shaka.util.Error(CRITICAL, MANIFEST, code, ...data)
Error(code, errorData) == [code |-> code, data |-> errorData]
NoError == Error("none", <<>>)
HLS_PLAYLIST_HEADER_MISSING == "HLS_PLAYLIST_HEADER_MISSING"
HLS_INVALID_PLAYLIST_HIERARCHY == "HLS_INVALID_PLAYLIST_HIERARCHY"
INVALID_HLS_TAG == "INVALID_HLS_TAG"
\* what the runtime throws on tag.value.split when tag.value is null
TypeError == "TypeError"

\* A faulty variant of nextGlobalId: the counter is not advanced.
nextGlobalIdStuck(id) == id

\* this.globalId_++ : the counter after parseTag_.
nextGlobalId(id) == id + 1

\* The heap after new Tag(...) or after a change of a Tag.
Store(h, tag) ==
    [k \in DOMAIN h \cup {tag.id} |-> IF k = tag.id THEN tag ELSE h[k]]

\* Math.max(100, Math.floor(remainingLines / 2))
MinEstimatedSegments == 100
estimatedSegments(remainingLines) ==
    IF remainingLines \div 2 > MinEstimatedSegments
    THEN remainingLines \div 2 ELSE MinEstimatedSegments

\* A faulty variant of storeSegment: a segment beyond the pre-sized array is
\* dropped instead of pushed.
storeSegmentWithinEstimate(array, index, segment) ==
    IF index < array.length THEN ArraySet(array, index, segment)
    ELSE array

\* segments[segmentIndex++] = segment, or segments.push(segment) once the
\* pre-sized array is full.
storeSegment(array, index, segment) ==
    IF index < array.length THEN ArraySet(array, index, segment)
    ELSE ArrayPush(array, segment)

Init ==
    /\ globalId_ = 0
    /\ heap = <<>>
    /\ pc = "idle"
    /\ lines = <<>>
    /\ i = 0
    /\ skip = TRUE
    /\ playlistType = MASTER
    /\ typeDetected = FALSE
    /\ tags = <<>>
    /\ tagIndex = createDefaultTagIndex_
    /\ startIndex = 0
    /\ lineIndex = 0
    /\ segments = NewArray(0)
    /\ segmentIndex = 0
    /\ segmentTags = <<>>
    /\ partialSegmentTags = <<>>
    /\ currentMapTag = Null
    /\ gapCount = 0
    /\ lastExtinfDuration = None
    /\ computed = createDefaultComputed_
    /\ result = None
    /\ error = NoError
    /\ buffer = <<>>
    /\ previous = None
    /\ tagStr = None

\* throw: the call ends and returns nothing.
Throw(code, errorData) ==
    /\ pc' = "thrown"
    /\ error' = Error(code, errorData)
    /\ result' = None

(***************************************************************************)
(* parsePlaylist(data), up to the loop: decode, normalize, trim, split,    *)
(* check the header, initialise the locals.  StringUtils.fromUTF8 is the   *)
(* external decoder; data is its result.                                   *)
(***************************************************************************)
\* A faulty variant of headerMissing: the header is only looked for as a
\* prefix of the first line, whatever follows it.
headerMissingPrefixOnly(ls) ==
    ~StartsWith(ls[1], <<"#", "E", "X", "T", "M", "3", "U">>)

headerMissing(ls) == ~header(ls[1])

\* A faulty variant of globalIdAtCall: every call starts its ids at 0.
globalIdAtCallReset(id) == 0

\* this.globalId_ at the start of a call: parsePlaylist does not assign it,
\* the constructor alone does.
globalIdAtCall(id) == id

parsePlaylist(data) ==
    /\ pc \in {"idle", "returned", "thrown"}
    /\ buffer' = data
    /\ LET str == Trim(NormalizeNewlines(data))
       IN  /\ lines' = Split(str)
           /\ IF headerMissing(lines')
              THEN Throw(HLS_PLAYLIST_HEADER_MISSING, <<>>)
              ELSE /\ pc' = "scan"
                   /\ error' = NoError
                   /\ result' = None
    /\ i' = 0
    /\ skip' = TRUE
    /\ playlistType' = MASTER
    /\ typeDetected' = FALSE
    /\ tags' = <<>>
    /\ tagIndex' = createDefaultTagIndex_
    /\ globalId_' = globalIdAtCall(globalId_)
    /\ UNCHANGED <<heap, segVars>>

(***************************************************************************)
(* One iteration of the loop of parsePlaylist.                             *)
(***************************************************************************)

\* A faulty variant of detectPlaylistType: the branch for EXT-X-STREAM-INF
\* and EXT-X-MEDIA is missing, so a declaration leaves the type undetected.
detectPlaylistTypeWithoutDeclarations(type, detected, name) ==
    IF detected THEN [playlistType |-> type, typeDetected |-> TRUE]
    ELSE IF name \in MEDIA_PLAYLIST_TAGS \cup SEGMENT_TAGS
         THEN [playlistType |-> MEDIA, typeDetected |-> TRUE]
         ELSE [playlistType |-> type, typeDetected |-> FALSE]

\* A faulty variant of detectPlaylistType: the typeDetected flag is not
\* consulted, so every tag takes part in the detection.
detectPlaylistTypeNotSticky(type, detected, name) ==
    IF name \in MEDIA_PLAYLIST_TAGS \cup SEGMENT_TAGS
    THEN [playlistType |-> MEDIA, typeDetected |-> TRUE]
    ELSE IF name = EXT_X_STREAM_INF \/ name = EXT_X_MEDIA
         THEN [playlistType |-> type, typeDetected |-> TRUE]
         ELSE [playlistType |-> type, typeDetected |-> detected]

\* "Detect playlist type on first relevant tag": the playlist type and the
\* typeDetected flag after a tag of that name.
detectPlaylistType(type, detected, name) ==
    IF detected THEN [playlistType |-> type, typeDetected |-> TRUE]
    ELSE IF name \in MEDIA_PLAYLIST_TAGS
         THEN [playlistType |-> MEDIA, typeDetected |-> TRUE]
         ELSE IF name = EXT_X_STREAM_INF \/ name = EXT_X_MEDIA
              THEN [playlistType |-> type, typeDetected |-> TRUE]
              ELSE IF name \in SEGMENT_TAGS
                   THEN [playlistType |-> MEDIA, typeDetected |-> TRUE]
                   ELSE [playlistType |-> type, typeDetected |-> FALSE]

\* A faulty variant of scanSkips: a line that does not start with '#' is
\* skipped too.
scanSkipsBareLines(line, skip_) ==
    isComment(line) \/ skip_ \/ ~StartsWith(line, <<"#">>)

\* Is the line skipped without being parsed?
scanSkips(line, skip_) == isComment(line) \/ skip_

\* Does this tag hand the rest of the lines to parseSegments_?
startsSegments(name) == name \in SEGMENT_TAGS

\* A faulty variant of segmentsStart: the segments start at the line after
\* the one that the scan has parsed.
segmentsStartAfter(k) == k + 1

\* this.parseSegments_(lines, i, tags, tagIndex): the line at which the
\* segments start is the one that the scan has just parsed.
segmentsStart(k) == k

\* The locals of parseSegments_(lines, startIndex, tags, tagIndex) at the
\* start of its loop.
enterSegments(start) ==
    /\ startIndex' = start
    /\ lineIndex' = start
    /\ segments' = NewArray(estimatedSegments(Len(lines) - start))
    /\ segmentIndex' = 0
    /\ segmentTags' = <<>>
    /\ partialSegmentTags' = <<>>
    /\ currentMapTag' = Null
    /\ gapCount' = 0
    /\ lastExtinfDuration' = None
    /\ computed' = createDefaultComputed_

\* A faulty variant of nextLine: lines[i] instead of lines[i + 1].
nextLineOffByOne(ls, k) == IF k < Len(ls) THEN Some(ls[k + 1]) ELSE None

\* The URI that an EXT-X-STREAM-INF tag gets: lines[i + 1], undefined
\* after the last line.
nextLine(ls, k) == IF k + 1 < Len(ls) THEN Some(ls[k + 2]) ELSE None

scanLine ==
    /\ pc = "scan"
    /\ i < Len(lines)
    /\ LET line == lines[i + 1]
           next == nextLine(lines, i)
           id == globalId_
           tag == parseTag(id, line)
           detected == detectPlaylistType(playlistType, typeDetected,
                                          tag.name)
       IN  IF scanSkips(line, skip)
           THEN /\ skip' = FALSE
                /\ i' = i + 1
                /\ UNCHANGED <<globalId_, heap, pc, playlistType,
                               typeDetected, listVars, segVars, result,
                               error>>
           ELSE /\ globalId_' = nextGlobalId(globalId_)
                /\ IF parseTagThrows(line)
                   THEN /\ Throw(INVALID_HLS_TAG, <<line>>)
                        /\ UNCHANGED <<heap, scanVars, listVars, segVars>>
                   ELSE /\ playlistType' = detected.playlistType
                        /\ typeDetected' = detected.typeDetected
                        /\ IF startsSegments(tag.name)
                           THEN /\ heap' = Store(heap, tag)
                                /\ UNCHANGED <<i, skip, listVars>>
                                /\ IF detected.playlistType # MEDIA
                                   THEN /\ Throw(
                                             HLS_INVALID_PLAYLIST_HIERARCHY,
                                             <<>>)
                                        /\ UNCHANGED segVars
                                   ELSE /\ pc' = "segments"
                                        /\ enterSegments(segmentsStart(i))
                                        /\ UNCHANGED <<result, error>>
                           ELSE /\ tags' = Append(tags, id)
                                /\ tagIndex' =
                                       updateTagIndexForTag_(tagIndex, tag)
                                /\ IF tag.name = EXT_X_STREAM_INF
                                   THEN /\ heap' = Store(heap, addAttribute(
                                               tag, Attribute(A_URI, next)))
                                        /\ skip' = TRUE
                                   ELSE /\ heap' = Store(heap, tag)
                                        /\ skip' = skip
                                /\ i' = i + 1
                                /\ UNCHANGED <<pc, segVars, result, error>>
    /\ UNCHANGED <<lines, callVars>>

(***************************************************************************)
(* The end of the loop of parsePlaylist: no segment tag was met.           *)
(***************************************************************************)
scanReturn ==
    /\ pc = "scan"
    /\ i >= Len(lines)
    /\ pc' = "returned"
    /\ result' = Some(Playlist(playlistType, tags,
                               [playlist |-> tagIndex,
                                segments |-> createDefaultSegmentsComputed_],
                               Some(NewArray(0))))
    /\ UNCHANGED <<globalId_, heap, lines, scanVars, listVars, segVars,
                   error, callVars>>

(***************************************************************************)
(* One iteration of the loop of parseSegments_.                            *)
(***************************************************************************)

\* The three kinds of line of the loop.
isDirectiveLine(line) == StartsWith(line, <<"#", "E", "X", "T">>)
isUriLine(line) == ~isDirectiveLine(line) /\ ~isComment(line)

\* A faulty variant of renamed: the preload hint keeps its name.
renamedKeepsName(tag) == tag

\* The tag as the branch on its name leaves it: a preload hint of TYPE=MAP
\* is renamed.
isPartHint(tag) ==
    tag.name = EXT_X_PRELOAD_HINT /\ getAttributeValue(tag, A_TYPE) = Some(V_PART)
isMapHint(tag) ==
    /\ tag.name = EXT_X_PRELOAD_HINT
    /\ getAttributeValue(tag, A_TYPE) # Some(V_PART)
    /\ getAttributeValue(tag, A_TYPE) = Some(V_MAP)
renamed(tag) == IF isMapHint(tag) THEN setName(tag, EXT_X_MAP) ELSE tag

\* currentMapTag after the tag
nextMapTag(current, tag) ==
    IF tag.name = EXT_X_MAP \/ isMapHint(tag) THEN tag.id ELSE current

\* A faulty variant of nextPartialSegmentTags: a preload hint of TYPE=PART
\* is not taken for a partial segment.
nextPartialSegmentTagsPartOnly(partials, tag) ==
    IF tag.name = EXT_X_PART THEN Append(partials, tag.id) ELSE partials

\* partialSegmentTags after the tag
nextPartialSegmentTags(partials, tag) ==
    IF tag.name = EXT_X_PART \/ isPartHint(tag)
    THEN Append(partials, tag.id) ELSE partials

\* segmentTags after the tag
nextSegmentTags(segTags, tag) ==
    IF tag.name \in {EXT_X_MAP, EXT_X_PART, EXT_X_PRELOAD_HINT}
    THEN segTags ELSE Append(segTags, tag.id)

\* "Ensure computed inherits currentMapTag if no MAP tag was processed for
\* this segment".
inheritMap(c, mapTag) ==
    IF c.map = Null /\ mapTag # Null
    THEN [c EXCEPT !.map = mapTag, !.mapId = mapTag] ELSE c

\* The segment made at a URI line.
boundarySegment(line, segTags, c, partials, mapTag) ==
    Segment(Trim(line),
            IF mapTag # Null THEN Append(segTags, mapTag) ELSE segTags,
            inheritMap(c, mapTag),
            partials)

segLine ==
    /\ pc = "segments"
    /\ lineIndex < Len(lines)
    /\ LET line == lines[lineIndex + 1]
           id == globalId_
           parsed == parseTag(id, line)
           tag == renamed(parsed)
       IN  IF isDirectiveLine(line)
           THEN /\ globalId_' = nextGlobalId(globalId_)
                /\ IF parseTagThrows(line)
                   THEN /\ Throw(INVALID_HLS_TAG, <<line>>)
                        /\ UNCHANGED <<heap, listVars, segVars>>
                   ELSE /\ heap' = Store(heap, tag)
                        /\ IF parsed.name \in MEDIA_PLAYLIST_TAGS
                           THEN /\ tags' = Append(tags, id)
                                /\ tagIndex' =
                                       updateTagIndexForTag_(tagIndex, tag)
                                /\ lineIndex' = lineIndex + 1
                                /\ UNCHANGED <<pc, result, error, segments,
                                       startIndex, segmentIndex, segmentTags,
                                       partialSegmentTags, currentMapTag,
                                       gapCount, lastExtinfDuration,
                                       computed>>
                           ELSE /\ currentMapTag' =
                                       nextMapTag(currentMapTag, parsed)
                                /\ partialSegmentTags' =
                                       nextPartialSegmentTags(
                                           partialSegmentTags, parsed)
                                /\ segmentTags' =
                                       nextSegmentTags(segmentTags, parsed)
                                /\ UNCHANGED <<listVars, segments,
                                       startIndex, segmentIndex, gapCount,
                                       lastExtinfDuration>>
                                /\ IF updateComputedThrows(computed, tag)
                                   THEN /\ Throw(TypeError, <<>>)
                                        /\ computed' = [computed EXCEPT
                                                           !.extinf = tag.id]
                                        /\ UNCHANGED lineIndex
                                   ELSE /\ computed' = updateComputedForTag_(
                                                           computed, tag)
                                        /\ lineIndex' = lineIndex + 1
                                        /\ UNCHANGED <<pc, result, error>>
           ELSE IF isComment(line)
                THEN /\ lineIndex' = lineIndex + 1
                     /\ UNCHANGED <<globalId_, heap, pc, listVars, result,
                            error, startIndex, segments, segmentIndex,
                            segmentTags,
                            partialSegmentTags, currentMapTag, gapCount,
                            lastExtinfDuration, computed>>
                ELSE /\ segments' = storeSegment(segments, segmentIndex,
                            boundarySegment(line, segmentTags, computed,
                                partialSegmentTags, currentMapTag))
                     /\ segmentIndex' = segmentIndex + 1
                     /\ lastExtinfDuration' =
                            IF computed.extinf # Null
                            THEN Some(computed.extinfDuration)
                            ELSE lastExtinfDuration
                     /\ gapCount' = IF computed.gap # Null
                                    THEN gapCount + 1 ELSE gapCount
                     /\ segmentTags' = <<>>
                     /\ partialSegmentTags' = <<>>
                     /\ computed' = createDefaultComputed_
                     /\ lineIndex' = lineIndex + 1
                     /\ UNCHANGED <<globalId_, heap, pc, listVars, result,
                            error, startIndex, currentMapTag>>
    /\ UNCHANGED <<lines, scanVars, callVars>>

(***************************************************************************)
(* The end of parseSegments_ and the return of parsePlaylist.              *)
(***************************************************************************)

\* The computed view of the final segment: updateComputedForTag_ over its
\* tags, from a fresh structure.
RECURSIVE computeOver(_, _, _)
computeOver(h, c, tagIds) ==
    IF tagIds = <<>> THEN c
    ELSE computeOver(h, updateComputedForTag_(c, h[Head(tagIds)]),
                     Tail(tagIds))

\* Does that loop throw?
RECURSIVE computeOverThrows(_, _, _)
computeOverThrows(h, c, tagIds) ==
    /\ tagIds # <<>>
    /\ \/ updateComputedThrows(c, h[Head(tagIds)])
       \/ computeOverThrows(h, updateComputedForTag_(c, h[Head(tagIds)]),
                            Tail(tagIds))

\* The tags of the segment that wraps the trailing partial segments.
finalSegmentTags(segTags, mapTag) ==
    IF mapTag # Null THEN Append(segTags, mapTag) ELSE segTags

\* A faulty variant of needsFinalSegment: the trailing partial segments are
\* never wrapped.
needsFinalSegmentNever(partials) == FALSE

\* "If no EXTINF tag follows the list of partial segment tags at the end,
\* create a segment to wrap the partial segment tags."
needsFinalSegment(partials) == Len(partials) # 0

finalSegment(h, segTags, partials, mapTag) ==
    Segment(<<>>, finalSegmentTags(segTags, mapTag),
            computeOver(h, createDefaultComputed_,
                        finalSegmentTags(segTags, mapTag)),
            partials)

\* "Trim pre-allocated array to actual size"
trimmedSegments(array, index) ==
    IF index < array.length THEN ArraySlice(array, index) ELSE array

segReturn ==
    /\ pc = "segments"
    /\ lineIndex >= Len(lines)
    /\ LET final == needsFinalSegment(partialSegmentTags)
           throws == final /\ computeOverThrows(heap, createDefaultComputed_,
                         finalSegmentTags(segmentTags, currentMapTag))
           allSegments ==
               IF final
               THEN storeSegment(segments, segmentIndex,
                        finalSegment(heap, segmentTags, partialSegmentTags,
                                     currentMapTag))
               ELSE segments
           count == IF final THEN segmentIndex + 1 ELSE segmentIndex
           analysis == [count |-> count, gapCount |-> gapCount,
                        lastExtinfDuration |-> lastExtinfDuration]
       IN  IF throws
           THEN /\ Throw(TypeError, <<>>)
                /\ UNCHANGED <<segments, segmentIndex, segmentTags>>
           ELSE /\ pc' = "returned"
                /\ segments' = allSegments
                /\ segmentIndex' = count
                /\ segmentTags' = IF final
                                  THEN finalSegmentTags(segmentTags,
                                                        currentMapTag)
                                  ELSE segmentTags
                /\ result' = Some(Playlist(playlistType, tags,
                                     [playlist |-> tagIndex,
                                      segments |-> analysis],
                                     Some(trimmedSegments(allSegments,
                                                          count))))
                /\ error' = error
    /\ UNCHANGED <<globalId_, heap, lines, scanVars, listVars, startIndex,
                   lineIndex, partialSegmentTags, currentMapTag, gapCount,
                   lastExtinfDuration, computed, callVars>>

(***************************************************************************)
(* The inputs of the model: playlist texts built from a catalogue of       *)
(* lines.                                                                  *)
(***************************************************************************)
L_HEADER == <<"#", "E", "X", "T", "M", "3", "U">>
L_HEADER_TAB == <<"#", "E", "X", "T", "M", "3", "U", "\t", "x">>
L_HEADER_LONGER == <<"#", "E", "X", "T", "M", "3", "U", "X">>
L_HEADER_AFTER_LS == <<"x", LS, "#", "E", "X", "T", "M", "3", "U">>
L_NO_HEADER == <<"i", "n", "v", "a", "l", "i", "d">>
L_EXTINF_5 == <<"#", "E", "X", "T", "I", "N", "F", ":", "5">>
L_EXTINF_4 == <<"#", "E", "X", "T", "I", "N", "F", ":", "4">>
L_EXTINF_NO_VALUE == <<"#", "E", "X", "T", "I", "N", "F">>
L_EXTINF_ATTRIBUTES ==
    << "#", "E", "X", "T", "I", "N", "F", ":", "p", "i", "d", "=", "1" >>
L_MAP_A ==
    << "#", "E", "X", "T", "-", "X", "-", "M", "A", "P", ":", "U", "R", "I",
       "=", "\"", "a", "\"" >>
L_MAP_B ==
    << "#", "E", "X", "T", "-", "X", "-", "M", "A", "P", ":", "U", "R", "I",
       "=", "\"", "b", "\"" >>
L_HINT_MAP ==
    << "#", "E", "X", "T", "-", "X", "-", "P", "R", "E", "L", "O", "A", "D",
       "-", "H", "I", "N", "T", ":", "T", "Y", "P", "E", "=", "M", "A", "P" >>
L_HINT_PART ==
    << "#", "E", "X", "T", "-", "X", "-", "P", "R", "E", "L", "O", "A", "D",
       "-", "H", "I", "N", "T", ":", "T", "Y", "P", "E", "=", "P", "A", "R",
       "T" >>
L_PART ==
    << "#", "E", "X", "T", "-", "X", "-", "P", "A", "R", "T", ":", "U", "R",
       "I", "=", "\"", "p", "\"" >>
L_URI == <<" ", "u">>
L_COMMENT == <<"#", "c">>
L_ENDLIST ==
    << "#", "E", "X", "T", "-", "X", "-", "E", "N", "D", "L", "I", "S", "T" >>
L_GAP == <<"#", "E", "X", "T", "-", "X", "-", "G", "A", "P">>
L_STREAM_INF ==
    << "#", "E", "X", "T", "-", "X", "-", "S", "T", "R", "E", "A", "M", "-",
       "I", "N", "F", ":", "B", "A", "N", "D", "W", "I", "D", "T", "H", "=",
       "1" >>
L_MEDIA ==
    << "#", "E", "X", "T", "-", "X", "-", "M", "E", "D", "I", "A", ":", "T",
       "Y", "P", "E", "=", "A", "U", "D", "I", "O" >>
L_TARGETDURATION ==
    << "#", "E", "X", "T", "-", "X", "-", "T", "A", "R", "G", "E", "T", "D",
       "U", "R", "A", "T", "I", "O", "N", ":", "6" >>
L_VERSION ==
    << "#", "E", "X", "T", "-", "X", "-", "V", "E", "R", "S", "I", "O", "N",
       ":", "6" >>
L_DATERANGE ==
    << "#", "E", "X", "T", "-", "X", "-", "D", "A", "T", "E", "R", "A", "N",
       "G", "E", ":", "I", "D", "=", "\"", "d", "\"" >>
L_BROKEN_DIRECTIVE == <<"#", "E", "X", "T", ":", LS>>
L_BYTERANGE ==
    << "#", "E", "X", "T", "-", "X", "-", "B", "Y", "T", "E", "R", "A", "N",
       "G", "E", ":", "1", "@", "0" >>
L_DISCONTINUITY ==
    << "#", "E", "X", "T", "-", "X", "-", "D", "I", "S", "C", "O", "N", "T",
       "I", "N", "U", "I", "T", "Y" >>
L_PROGRAM_DATE_TIME ==
    << "#", "E", "X", "T", "-", "X", "-", "P", "R", "O", "G", "R", "A", "M",
       "-", "D", "A", "T", "E", "-", "T", "I", "M", "E", ":", "t" >>
L_KEY ==
    << "#", "E", "X", "T", "-", "X", "-", "K", "E", "Y", ":", "M", "E", "T",
       "H", "O", "D", "=", "N", "O", "N", "E" >>
L_TILES ==
    << "#", "E", "X", "T", "-", "X", "-", "T", "I", "L", "E", "S", ":", "L",
       "A", "Y", "O", "U", "T", "=", "1" >>

\* The longest body (lines after the header) of the exhaustive inputs.
MaxLines == 4
\* How far the segment count of the long inputs goes beyond the pre-size.
MaxOverflow == 2

LF == <<"\n">>
CRLF == <<"\r", "\n">>
CR == <<"\r">>

\* The lines joined by the line break sep.
JoinWith(ls, sep) ==
    LET Piece(k) == IF k = 1 THEN ls[k] ELSE sep \o ls[k]
    IN  Concat(Piece, 1, Len(ls))

\* All the sequences over S of length at most n.
SeqsUpTo(S, n) == UNION {[1..k -> S] : k \in 0..n}

\* n copies of a line.
Repeat(line, n) == [k \in 1..n |-> line]

\* Texts with other line breaks, blank lines and surrounding white space.
Variants(ls) ==
    {pre \o JoinWith(ls, sep) \o post :
        sep \in {LF, CRLF, CR, LF \o LF, CR \o CRLF},
        pre \in {<<>>, <<" ", "\n">>},
        post \in {<<>>, <<"\n">>, <<"\r">>}}

\* Lines of a media playlist.
SegmentLines ==
    {L_EXTINF_5, L_EXTINF_NO_VALUE, L_MAP_A, L_HINT_MAP, L_PART,
     L_HINT_PART, L_URI, L_COMMENT, L_ENDLIST}

\* Long media playlists: more segments than the pre-sized array holds.
LongBodies ==
    {<<L_EXTINF_5>> \o Repeat(L_URI, n) \o tail :
        n \in (MinEstimatedSegments - 1)..(MinEstimatedSegments + MaxOverflow)
              \cup {2 * MinEstimatedSegments + MaxOverflow},
        tail \in {<<>>, <<L_PART>>}}

\* Media playlists with other directives of a segment.
OtherBodies ==
    {<<L_TARGETDURATION>> \o body \o tail :
        body \in {<<L_EXTINF_ATTRIBUTES>>, <<L_EXTINF_4, L_GAP, L_KEY>>,
                  <<L_MAP_A, L_MAP_B>>,
                  <<L_MAP_B, L_EXTINF_4, L_URI, L_MAP_A>>},
        tail \in {<<>>, <<L_URI>>, <<L_URI, L_PART>>}}

SegmentInputs ==
    {JoinWith(<<L_HEADER>> \o body, LF) :
        body \in SeqsUpTo(SegmentLines, MaxLines) \cup LongBodies
                    \cup OtherBodies}

\* Lines of a master playlist, and what may be mixed into one.
ScanLines ==
    {L_STREAM_INF, L_MEDIA, L_TARGETDURATION, L_VERSION, L_EXTINF_5, L_URI,
     L_COMMENT, L_BROKEN_DIRECTIVE}

FirstLines ==
    {L_HEADER, L_HEADER_TAB, L_HEADER_LONGER, L_HEADER_AFTER_LS, L_NO_HEADER}

\* A declaration, some lines, and each of the segment directives.
SegmentDirectives ==
    {L_EXTINF_5, L_BYTERANGE, L_DISCONTINUITY, L_PROGRAM_DATE_TIME, L_KEY,
     L_DATERANGE, L_MAP_A, L_GAP, L_TILES}
HierarchyBodies ==
    {<<decl>> \o mid \o <<seg>> :
        decl \in {L_STREAM_INF, L_MEDIA},
        mid \in SeqsUpTo({L_URI, L_COMMENT, L_TARGETDURATION, L_STREAM_INF}, 2),
        seg \in SegmentDirectives}

ScanInputs ==
    {JoinWith(<<L_HEADER>> \o body, LF) :
        body \in SeqsUpTo(ScanLines, MaxLines) \cup HierarchyBodies}
    \cup UNION {Variants(<<first>> \o body) :
                  first \in FirstLines, body \in SeqsUpTo(ScanLines, 1)}
    \cup {<<>>, <<" ">>, LF}

(***************************************************************************)
(* The specifications: one parsePlaylist call on a new parser, stepped     *)
(* through its loops.                                                      *)
(***************************************************************************)

callParsePlaylist ==
    /\ pc = "idle"
    /\ \E data \in SegmentInputs : parsePlaylist(data)
    /\ UNCHANGED <<previous, tagStr>>

Next ==
    \/ callParsePlaylist
    \/ scanLine
    \/ scanReturn
    \/ segLine
    \/ segReturn

Spec == Init /\ [][Next]_vars

callParsePlaylistScan ==
    /\ pc = "idle"
    /\ \E data \in ScanInputs : parsePlaylist(data)
    /\ UNCHANGED <<previous, tagStr>>

NextScan ==
    \/ callParsePlaylistScan
    \/ scanLine
    \/ scanReturn
    \/ segLine
    \/ segReturn

SpecScan == Init /\ [][NextScan]_vars

(***************************************************************************)
(* Media playlists with gaps: EXT-X-GAP, and partial segments with         *)
(* GAP=YES.                                                                *)
(***************************************************************************)

L_PART_GAP ==
    << "#", "E", "X", "T", "-", "X", "-", "P", "A", "R", "T", ":", "G", "A",
       "P", "=", "Y", "E", "S" >>
L_HINT_PART_GAP ==
    << "#", "E", "X", "T", "-", "X", "-", "P", "R", "E", "L", "O", "A", "D",
       "-", "H", "I", "N", "T", ":", "T", "Y", "P", "E", "=", "P", "A", "R",
       "T", ",", "G", "A", "P", "=", "Y", "E", "S" >>

GapLines ==
    {L_EXTINF_5, L_EXTINF_4, L_GAP, L_PART, L_PART_GAP, L_HINT_PART_GAP,
     L_URI}

\* "counts both regular and partial segment gaps": a gap in a part of the
\* first segment, an EXT-X-GAP in the second, a gap in a part of the third.
MixedGapsBody ==
    << L_TARGETDURATION,
       L_EXTINF_5, L_PART_GAP, L_PART, L_URI,
       L_EXTINF_5, L_GAP, L_URI,
       L_EXTINF_5, L_PART, L_PART_GAP, L_URI >>

GapInputs ==
    {JoinWith(<<L_HEADER>> \o body, LF) :
        body \in SeqsUpTo(GapLines, MaxLines) \cup {MixedGapsBody}}

callParsePlaylistGap ==
    /\ pc = "idle"
    /\ \E data \in GapInputs : parsePlaylist(data)
    /\ UNCHANGED <<previous, tagStr>>

NextGap ==
    \/ callParsePlaylistGap
    \/ scanLine
    \/ scanReturn
    \/ segLine
    \/ segReturn

SpecGap == Init /\ [][NextGap]_vars

(***************************************************************************)
(* Media playlists with the directives of the playlist among the segments. *)
(***************************************************************************)

L_MEDIA_SEQUENCE ==
    << "#", "E", "X", "T", "-", "X", "-", "M", "E", "D", "I", "A", "-", "S",
       "E", "Q", "U", "E", "N", "C", "E", ":", "2" >>
L_DISCONTINUITY_SEQUENCE ==
    << "#", "E", "X", "T", "-", "X", "-", "D", "I", "S", "C", "O", "N", "T",
       "I", "N", "U", "I", "T", "Y", "-", "S", "E", "Q", "U", "E", "N", "C",
       "E", ":", "1" >>
L_PLAYLIST_TYPE ==
    << "#", "E", "X", "T", "-", "X", "-", "P", "L", "A", "Y", "L", "I", "S",
       "T", "-", "T", "Y", "P", "E", ":", "V", "O", "D" >>
L_I_FRAMES_ONLY ==
    << "#", "E", "X", "T", "-", "X", "-", "I", "-", "F", "R", "A", "M", "E",
       "S", "-", "O", "N", "L", "Y" >>
L_SERVER_CONTROL ==
    << "#", "E", "X", "T", "-", "X", "-", "S", "E", "R", "V", "E", "R", "-",
       "C", "O", "N", "T", "R", "O", "L", ":", "H", "O", "L", "D", "-", "B",
       "A", "C", "K", "=", "3" >>
L_SKIP ==
    << "#", "E", "X", "T", "-", "X", "-", "S", "K", "I", "P", ":", "S", "K",
       "I", "P", "P", "E", "D", "-", "S", "E", "G", "M", "E", "N", "T", "S",
       "=", "3" >>
L_SKIP_B ==
    << "#", "E", "X", "T", "-", "X", "-", "S", "K", "I", "P", ":", "S", "K",
       "I", "P", "P", "E", "D", "-", "S", "E", "G", "M", "E", "N", "T", "S",
       "=", "7" >>
L_PART_INF ==
    << "#", "E", "X", "T", "-", "X", "-", "P", "A", "R", "T", "-", "I", "N",
       "F", ":", "P", "A", "R", "T", "-", "T", "A", "R", "G", "E", "T", "=",
       "1" >>
L_START ==
    << "#", "E", "X", "T", "-", "X", "-", "S", "T", "A", "R", "T", ":", "T",
       "I", "M", "E", "-", "O", "F", "F", "S", "E", "T", "=", "0" >>

\* The directives of the playlist: the ten of MEDIA_PLAYLIST_TAGS, a second
\* EXT-X-SKIP, and EXT-X-START.
PlaylistLines ==
    {L_TARGETDURATION, L_MEDIA_SEQUENCE, L_DISCONTINUITY_SEQUENCE,
     L_PLAYLIST_TYPE, L_I_FRAMES_ONLY, L_ENDLIST, L_SERVER_CONTROL, L_SKIP,
     L_SKIP_B, L_PART_INF, L_DATERANGE, L_START}

\* They come alone, after the directives of a pending segment, or around
\* the first directive of a segment.
TagsBodies ==
    LET some == SeqsUpTo(PlaylistLines, MaxLines - 2)
    IN  some
        \cup {<<L_EXTINF_5, L_MAP_A, L_PART>> \o ls \o tail :
                 ls \in some, tail \in {<<>>, <<L_URI>>}}
        \cup {<<L_SKIP, L_EXTINF_5>> \o ls : ls \in some}

TagsInputs == {JoinWith(<<L_HEADER>> \o body, LF) : body \in TagsBodies}

callParsePlaylistTags ==
    /\ pc = "idle"
    /\ \E data \in TagsInputs : parsePlaylist(data)
    /\ UNCHANGED <<previous, tagStr>>

NextTags ==
    \/ callParsePlaylistTags
    \/ scanLine
    \/ scanReturn
    \/ segLine
    \/ segReturn

SpecTags == Init /\ [][NextTags]_vars

(***************************************************************************)
(* Two calls of parsePlaylist on one parser with the same data.            *)
(***************************************************************************)

TwiceLines ==
    {L_TARGETDURATION, L_STREAM_INF, L_EXTINF_5, L_MAP_A, L_HINT_MAP, L_PART,
     L_URI}

TwiceInputs ==
    {JoinWith(<<L_HEADER>> \o body, LF) :
        body \in SeqsUpTo(TwiceLines, MaxLines - 1)}

callParsePlaylistFirst ==
    /\ pc = "idle"
    /\ \E data \in TwiceInputs : parsePlaylist(data)
    /\ UNCHANGED <<previous, tagStr>>

\* The caller keeps the playlist returned and parses the same data again.
callParsePlaylistAgain ==
    /\ pc = "returned"
    /\ previous = None
    /\ previous' = result
    /\ UNCHANGED tagStr
    /\ parsePlaylist(buffer)

NextTwice ==
    \/ callParsePlaylistFirst
    \/ callParsePlaylistAgain
    \/ scanLine
    \/ scanReturn
    \/ segLine
    \/ segReturn

SpecTwice == Init /\ [][NextTwice]_vars

(***************************************************************************)
(* Media playlists with the directives whose values are read as numbers.   *)
(***************************************************************************)

L_DISCONTINUITY_SEQUENCE_0 ==
    << "#", "E", "X", "T", "-", "X", "-", "D", "I", "S", "C", "O", "N", "T",
       "I", "N", "U", "I", "T", "Y", "-", "S", "E", "Q", "U", "E", "N", "C",
       "E", ":", "0" >>
L_DISCONTINUITY_SEQUENCE_NO_VALUE ==
    << "#", "E", "X", "T", "-", "X", "-", "D", "I", "S", "C", "O", "N", "T",
       "I", "N", "U", "I", "T", "Y", "-", "S", "E", "Q", "U", "E", "N", "C",
       "E" >>
L_DISCONTINUITY_SEQUENCE_TEXT ==
    << "#", "E", "X", "T", "-", "X", "-", "D", "I", "S", "C", "O", "N", "T",
       "I", "N", "U", "I", "T", "Y", "-", "S", "E", "Q", "U", "E", "N", "C",
       "E", ":", "x" >>
L_MEDIA_SEQUENCE_NO_VALUE ==
    << "#", "E", "X", "T", "-", "X", "-", "M", "E", "D", "I", "A", "-", "S",
       "E", "Q", "U", "E", "N", "C", "E" >>
L_MEDIA_SEQUENCE_TEXT ==
    << "#", "E", "X", "T", "-", "X", "-", "M", "E", "D", "I", "A", "-", "S",
       "E", "Q", "U", "E", "N", "C", "E", ":", "x" >>
L_SKIP_NO_ATTRIBUTE ==
    << "#", "E", "X", "T", "-", "X", "-", "S", "K", "I", "P" >>
L_SKIP_TEXT ==
    << "#", "E", "X", "T", "-", "X", "-", "S", "K", "I", "P", ":", "S", "K",
       "I", "P", "P", "E", "D", "-", "S", "E", "G", "M", "E", "N", "T", "S",
       "=", "x" >>
L_EXTINF_TEXT ==
    << "#", "E", "X", "T", "I", "N", "F", ":", "x" >>
L_BITRATE_8 ==
    << "#", "E", "X", "T", "-", "X", "-", "B", "I", "T", "R", "A", "T", "E",
       ":", "8" >>
L_BITRATE_NO_VALUE ==
    << "#", "E", "X", "T", "-", "X", "-", "B", "I", "T", "R", "A", "T", "E" >>
L_BITRATE_TEXT ==
    << "#", "E", "X", "T", "-", "X", "-", "B", "I", "T", "R", "A", "T", "E",
       ":", "x" >>

\* The directives of the tag index with a number, written with a number,
\* with 0, without a value and with other text.
IndexNumberLines ==
    {L_DISCONTINUITY_SEQUENCE, L_DISCONTINUITY_SEQUENCE_0,
     L_DISCONTINUITY_SEQUENCE_NO_VALUE, L_DISCONTINUITY_SEQUENCE_TEXT,
     L_MEDIA_SEQUENCE, L_MEDIA_SEQUENCE_NO_VALUE, L_MEDIA_SEQUENCE_TEXT,
     L_SKIP, L_SKIP_NO_ATTRIBUTE, L_SKIP_TEXT}

\* The same for the directives of a segment.
ExtinfLines == {L_EXTINF_5, L_EXTINF_TEXT, L_EXTINF_NO_VALUE}
BitrateLines == {L_BITRATE_8, L_BITRATE_NO_VALUE, L_BITRATE_TEXT}

NumberBodies ==
    {index \o seg :
        index \in SeqsUpTo(IndexNumberLines, MaxLines - 2),
        seg \in {<<>>, <<L_EXTINF_5, L_URI>>}}
    \cup {<<extinf>> \o rates \o <<L_URI>> \o index :
            extinf \in ExtinfLines,
            rates \in SeqsUpTo(BitrateLines, MaxLines - 2),
            index \in SeqsUpTo(IndexNumberLines, 1)}

NumberInputs == {JoinWith(<<L_HEADER>> \o body, LF) : body \in NumberBodies}

callParsePlaylistNumbers ==
    /\ pc = "idle"
    /\ \E data \in NumberInputs : parsePlaylist(data)
    /\ UNCHANGED <<previous, tagStr>>

NextNumbers ==
    \/ callParsePlaylistNumbers
    \/ scanLine
    \/ scanReturn
    \/ segLine
    \/ segReturn

SpecNumbers == Init /\ [][NextNumbers]_vars

(***************************************************************************)
(* Tag.toString, and directives parsed on their own and written again.     *)
(***************************************************************************)

\* '"' + undefined + '"': the missing value is written as this word.
UNDEFINED ==
    << "u", "n", "d", "e", "f", "i", "n", "e", "d" >>

\* attrToStr of Tag.toString: isNumericAttr is !isNaN(Number(attr.value)),
\* and Number(undefined) is NaN.
attrToStr(attr) ==
    LET isNumericAttr == attr.value # None /\ ~ToNumber(Val(attr.value)).nan
        value == IF isNumericAttr THEN Val(attr.value)
                 ELSE <<"\"">>
                      \o (IF attr.value = None THEN UNDEFINED
                          ELSE Val(attr.value))
                      \o <<"\"">>
    IN  attr.name \o <<"=">> \o value

\* Tag.toString(attributesToSkip); attributesToSkip is a set of names, empty
\* when the argument is left out.  this.value is written when it is truthy.
toString(tag, attributesToSkip) ==
    LET kept == SelectSeq(tag.attributes,
                          LAMBDA attr : attr.name \notin attributesToSkip)
        strs == [k \in 1..Len(kept) |-> attrToStr(kept[k])]
        appendages == IF tag.value # None /\ Val(tag.value) # <<>>
                      THEN <<Val(tag.value)>> \o strs ELSE strs
    IN  <<"#">> \o tag.name
        \o (IF Len(appendages) > 0
            THEN <<":">> \o JoinWith(appendages, <<",">>) ELSE <<>>)

\* The directives written for it: a name, then nothing, a value, a list of
\* attributes, or a value and a list of attributes.  An attribute is written
\* as its name, '=' and its value, between quotes or not.
V_VOD ==
    << "V", "O", "D" >>
V_5 ==
    << "5" >>
A_CODECS ==
    << "C", "O", "D", "E", "C", "S" >>
A_AUDIO ==
    << "A", "U", "D", "I", "O" >>
A_BANDWIDTH ==
    << "B", "A", "N", "D", "W", "I", "D", "T", "H" >>
A_NAME ==
    << "N", "A", "M", "E" >>
A_CHANNELS ==
    << "C", "H", "A", "N", "N", "E", "L", "S" >>
V_AVC1_MP4A ==
    << "a", "v", "c", "1", ",", "m", "p", "4", "a" >>
V_A1_A2 ==
    << "a", "1", ",", "a", "2" >>
V_800 ==
    << "8", "0", "0" >>
V_2 ==
    << "2" >>
V_AUDIO ==
    << "A", "U", "D", "I", "O" >>

Written(key, value, quoted) == [key |-> key, value |-> value, quoted |-> quoted]
WrittenAttributes ==
    {Written(A_CODECS, V_AVC1_MP4A, TRUE), Written(A_AUDIO, V_A1_A2, TRUE),
     Written(A_BANDWIDTH, V_800, FALSE), Written(A_NAME, <<>>, TRUE),
     Written(A_NAME, <<>>, FALSE), Written(A_TYPE, V_AUDIO, FALSE),
     Written(A_CHANNELS, V_2, TRUE)}

\* The number of attributes of a directive.
MaxAttributes == 2

WrittenTags ==
    [name : {EXTINF, EXT_X_MEDIA}, value : {None, Some(V_VOD), Some(V_5)},
     attributes : SeqsUpTo(WrittenAttributes, MaxAttributes)]

AttributeText(w) ==
    w.key \o <<"=">>
    \o (IF w.quoted THEN <<"\"">> \o w.value \o <<"\"">> ELSE w.value)
TagText(w) ==
    LET strs == [k \in 1..Len(w.attributes) |->
                     AttributeText(w.attributes[k])]
        appendages == w.value \o strs
    IN  <<"#">> \o w.name
        \o (IF appendages # <<>>
            THEN <<":">> \o JoinWith(appendages, <<",">>) ELSE <<>>)

\* const tag = shaka.hls.ManifestTextParser.parseTag(0, text)
callParseTag ==
    /\ pc = "idle"
    /\ \E w \in WrittenTags :
          /\ buffer' = TagText(w)
          /\ heap' = Store(heap, parseTag(0, TagText(w)))
    /\ pc' = "parsed"
    /\ UNCHANGED <<globalId_, lines, scanVars, listVars, segVars, result,
                   error, previous, tagStr>>

\* tag.toString()
callToString ==
    /\ pc = "parsed"
    /\ tagStr' = Some(toString(heap[0], {}))
    /\ pc' = "printed"
    /\ UNCHANGED <<globalId_, heap, lines, scanVars, listVars, segVars,
                   result, error, buffer, previous>>

NextToString ==
    \/ callParseTag
    \/ callToString

SpecToString == Init /\ [][NextToString]_vars

(***************************************************************************)
(* Media playlists with directives of other or of no known name among the  *)
(* directives of their segments.                                           *)
(***************************************************************************)

L_CUSTOM ==
    << "#", "E", "X", "T", "-", "X", "-", "C", "U", "S", "T", "O", "M", ":",
       "1" >>
L_HINT_OTHER ==
    << "#", "E", "X", "T", "-", "X", "-", "P", "R", "E", "L", "O", "A", "D",
       "-", "H", "I", "N", "T", ":", "T", "Y", "P", "E", "=", "O", "T", "H",
       "E", "R" >>
L_HINT_NO_TYPE ==
    << "#", "E", "X", "T", "-", "X", "-", "P", "R", "E", "L", "O", "A", "D",
       "-", "H", "I", "N", "T", ":", "U", "R", "I", "=", "\"", "h", "\"" >>

OtherLines ==
    {L_EXTINF_5, L_CUSTOM, L_HINT_OTHER, L_HINT_NO_TYPE, L_PART, L_URI}

OtherInputs ==
    {JoinWith(<<L_HEADER>> \o body, LF) :
        body \in SeqsUpTo(OtherLines, MaxLines - 1)}

callParsePlaylistOther ==
    /\ pc = "idle"
    /\ \E data \in OtherInputs : parsePlaylist(data)
    /\ UNCHANGED <<previous, tagStr>>

NextOther ==
    \/ callParsePlaylistOther
    \/ scanLine
    \/ scanReturn
    \/ segLine
    \/ segReturn

SpecOther == Init /\ [][NextOther]_vars

(***************************************************************************)
(* Playlists with comments, declarations and their URI lines, directives   *)
(* of the playlist and of segments, for the ids of the tags.               *)
(***************************************************************************)

IdLines ==
    {L_COMMENT, L_STREAM_INF, L_TARGETDURATION, L_EXTINF_5, L_KEY, L_MAP_A,
     L_URI}

IdInputs ==
    {JoinWith(<<L_HEADER>> \o body, LF) :
        body \in SeqsUpTo(IdLines, MaxLines - 1)}

callParsePlaylistIds ==
    /\ pc = "idle"
    /\ \E data \in IdInputs : parsePlaylist(data)
    /\ UNCHANGED <<previous, tagStr>>

NextIds ==
    \/ callParsePlaylistIds
    \/ scanLine
    \/ scanReturn
    \/ segLine
    \/ segReturn

SpecIds == Init /\ [][NextIds]_vars

(***************************************************************************)
(* Playlists with the directives that the tag index keeps in lists.        *)
(***************************************************************************)

L_DEFINE ==
    << "#", "E", "X", "T", "-", "X", "-", "D", "E", "F", "I", "N", "E", ":",
       "N", "A", "M", "E", "=", "\"", "n", "\"" >>
L_IMAGE_STREAM_INF ==
    << "#", "E", "X", "T", "-", "X", "-", "I", "M", "A", "G", "E", "-", "S",
       "T", "R", "E", "A", "M", "-", "I", "N", "F", ":", "U", "R", "I", "=",
       "\"", "i", "\"" >>
L_I_FRAME_STREAM_INF ==
    << "#", "E", "X", "T", "-", "X", "-", "I", "-", "F", "R", "A", "M", "E",
       "-", "S", "T", "R", "E", "A", "M", "-", "I", "N", "F", ":", "U", "R",
       "I", "=", "\"", "f", "\"" >>
L_SESSION_KEY ==
    << "#", "E", "X", "T", "-", "X", "-", "S", "E", "S", "S", "I", "O", "N",
       "-", "K", "E", "Y", ":", "M", "E", "T", "H", "O", "D", "=", "N", "O",
       "N", "E" >>
L_SESSION_DATA ==
    << "#", "E", "X", "T", "-", "X", "-", "S", "E", "S", "S", "I", "O", "N",
       "-", "D", "A", "T", "A", ":", "D", "A", "T", "A", "-", "I", "D", "=",
       "\"", "d", "\"" >>
L_CONTENT_STEERING ==
    << "#", "E", "X", "T", "-", "X", "-", "C", "O", "N", "T", "E", "N", "T",
       "-", "S", "T", "E", "E", "R", "I", "N", "G", ":", "S", "E", "R", "V",
       "E", "R", "-", "U", "R", "I", "=", "\"", "s", "\"" >>

ListLines ==
    {L_DEFINE, L_DATERANGE, L_MEDIA, L_STREAM_INF, L_IMAGE_STREAM_INF,
     L_I_FRAME_STREAM_INF, L_SESSION_KEY, L_SESSION_DATA, L_CONTENT_STEERING}

\* A segment with an EXT-X-DATERANGE among its directives, after some of
\* the lines above.
DateRangeBodies ==
    {ls \o <<L_EXTINF_5, L_DATERANGE, L_URI>> :
        ls \in SeqsUpTo({L_DEFINE, L_DATERANGE, L_MEDIA}, MaxLines - 3)}

ListInputs ==
    {JoinWith(<<L_HEADER>> \o body, LF) :
        body \in SeqsUpTo(ListLines, MaxLines - 1) \cup DateRangeBodies}

callParsePlaylistLists ==
    /\ pc = "idle"
    /\ \E data \in ListInputs : parsePlaylist(data)
    /\ UNCHANGED <<previous, tagStr>>

NextLists ==
    \/ callParsePlaylistLists
    \/ scanLine
    \/ scanReturn
    \/ segLine
    \/ segReturn

SpecLists == Init /\ [][NextLists]_vars

(***************************************************************************)
(* Media playlists with directives of a segment given more than once.      *)
(***************************************************************************)

ComputedLines ==
    {L_EXTINF_5, L_GAP, L_BYTERANGE, L_DISCONTINUITY, L_PROGRAM_DATE_TIME,
     L_TILES, L_KEY, L_PART, L_URI}

ComputedInputs ==
    {JoinWith(<<L_HEADER>> \o body, LF) :
        body \in SeqsUpTo(ComputedLines, MaxLines - 1)}

callParsePlaylistComputed ==
    /\ pc = "idle"
    /\ \E data \in ComputedInputs : parsePlaylist(data)
    /\ UNCHANGED <<previous, tagStr>>

NextComputed ==
    \/ callParsePlaylistComputed
    \/ scanLine
    \/ scanReturn
    \/ segLine
    \/ segReturn

SpecComputed == Init /\ [][NextComputed]_vars

(***************************************************************************)
(* Playlists with declarations of a master playlist before and after the   *)
(* directive that starts the segments.                                     *)
(***************************************************************************)

\* A declaration that has a URI among its own attributes.
L_STREAM_INF_URI ==
    << "#", "E", "X", "T", "-", "X", "-", "S", "T", "R", "E", "A", "M", "-",
       "I", "N", "F", ":", "U", "R", "I", "=", "\"", "v", "\"" >>

TerminalLines ==
    {L_COMMENT, L_TARGETDURATION, L_STREAM_INF, L_STREAM_INF_URI, L_MEDIA,
     L_EXTINF_5, L_URI}

TerminalInputs ==
    {JoinWith(<<L_HEADER>> \o body, LF) :
        body \in SeqsUpTo(TerminalLines, MaxLines - 1)}

callParsePlaylistTerminal ==
    /\ pc = "idle"
    /\ \E data \in TerminalInputs : parsePlaylist(data)
    /\ UNCHANGED <<previous, tagStr>>

NextTerminal ==
    \/ callParsePlaylistTerminal
    \/ scanLine
    \/ scanReturn
    \/ segLine
    \/ segReturn

SpecTerminal == Init /\ [][NextTerminal]_vars

(***************************************************************************)
(* Calls one after another on one parser, of which some fail.              *)
(***************************************************************************)

\* A document without the header, a master and a media playlist, and two
\* documents that are refused after the first directive has taken an id.
CallInputs ==
    {L_NO_HEADER,
     JoinWith(<<L_HEADER, L_TARGETDURATION>>, LF),
     JoinWith(<<L_HEADER, L_EXTINF_5, L_URI>>, LF),
     JoinWith(<<L_HEADER, L_EXTINF_NO_VALUE>>, LF),
     JoinWith(<<L_HEADER, L_TARGETDURATION, L_URI>>, LF)}

\* The calls are made while the parser has given out fewer ids than this.
MaxIds == 4

\* parser.parsePlaylist(data) on a parser that may have been used before;
\* the caller keeps the playlist that the call before returned.
callParsePlaylistNext ==
    /\ pc \in {"idle", "returned", "thrown"}
    /\ globalId_ < MaxIds
    /\ previous' = IF pc = "returned" THEN result ELSE previous
    /\ UNCHANGED tagStr
    /\ \E data \in CallInputs : parsePlaylist(data)

NextCalls ==
    \/ callParsePlaylistNext
    \/ scanLine
    \/ scanReturn
    \/ segLine
    \/ segReturn

SpecCalls == Init /\ [][NextCalls]_vars

(***************************************************************************)
(* The document as parsePlaylist reads it, told from the lines alone.      *)
(***************************************************************************)

\* The call has ended.
Ended == pc \in {"returned", "thrown"}

\* Has parseSegments_ been called?  Line 0 is never parsed, so it starts at
\* a line after it.
SegmentModeEntered == startIndex > 0

\* Is line k (counted from 0) passed over by the scan: line 0, and the line
\* after a parsed EXT-X-STREAM-INF.
RECURSIVE ConsumedLine(_, _)
ConsumedLine(ls, k) ==
    IF k = 0 THEN TRUE
    ELSE /\ ~ConsumedLine(ls, k - 1)
         /\ ~isComment(ls[k])
         /\ tagBlocks(ls[k]).matched
         /\ tagBlocks(ls[k]).name = EXT_X_STREAM_INF

\* Is line k parsed by the scan, if the scan gets that far?
ScannedLine(ls, k) == ~ConsumedLine(ls, k) /\ ~isComment(ls[k + 1])

\* A line of the shape #EXT<name>[:rest] with one of the names.
DirectiveNamed(line, names) ==
    tagBlocks(line).matched /\ tagBlocks(line).name \in names

Declarations == {EXT_X_STREAM_INF, EXT_X_MEDIA}
TypeDetermining == MEDIA_PLAYLIST_TAGS \cup SEGMENT_TAGS \cup Declarations

\* Every line parsed by the scan before line k has the shape of a directive.
WellFormedBefore(ls, k) ==
    \A m \in 0..(k - 1) : ScannedLine(ls, m) => tagBlocks(ls[m + 1]).matched

\* Line j is the first line parsed by the scan whose name decides the type.
FirstTypeDetermining(ls, j) ==
    /\ ScannedLine(ls, j)
    /\ DirectiveNamed(ls[j + 1], TypeDetermining)
    /\ \A m \in 0..(j - 1) :
           ScannedLine(ls, m) => ~DirectiveNamed(ls[m + 1], TypeDetermining)

\* The type that the first deciding directive gives the document.
ExpectedType(ls) ==
    IF \E j \in 0..(Len(ls) - 1) :
           /\ FirstTypeDetermining(ls, j)
           /\ ~DirectiveNamed(ls[j + 1], Declarations)
    THEN MEDIA ELSE MASTER

\* The positions (counted from 1) of the URI lines after the first from
\* lines.
UriPositions(ls, from) == {p \in (from + 1)..Len(ls) : isUriLine(ls[p])}

\* How many members of S come before p.
RankIn(S, p) == Cardinality({q \in S : q < p})

MaxOf(S) == CHOOSE x \in S : \A y \in S : y <= x

\* Two tags that differ at most in their id.
SameTag(a, b) == [a EXCEPT !.id = 0] = [b EXCEPT !.id = 0]

\* EXT-X-PART, or EXT-X-PRELOAD-HINT with TYPE=PART.
IsPartialSegmentDirective(line) ==
    /\ DirectiveNamed(line, {EXT_X_PART, EXT_X_PRELOAD_HINT})
    /\ \/ tagBlocks(line).name = EXT_X_PART
       \/ getAttributeValue(parseTag(0, line), A_TYPE) = Some(V_PART)

\* EXT-X-MAP, or EXT-X-PRELOAD-HINT with TYPE=MAP.
IsMapDirective(line) ==
    /\ DirectiveNamed(line, {EXT_X_MAP, EXT_X_PRELOAD_HINT})
    /\ \/ tagBlocks(line).name = EXT_X_MAP
       \/ getAttributeValue(parseTag(0, line), A_TYPE) = Some(V_MAP)

\* The positions of the partial-segment directives after the last URI line
\* (after the first from lines, if there is no URI line).
TrailingParts(ls, from) ==
    LET uris == UriPositions(ls, from)
        last == IF uris = {} THEN from ELSE MaxOf(uris)
    IN  {p \in (last + 1)..Len(ls) : IsPartialSegmentDirective(ls[p])}

\* The segments of the playlist returned.
ReturnedSegments == Val(Val(result).segments)

(***************************************************************************)
(* Properties of parsePlaylist.                                            *)
(***************************************************************************)

\* C1: in segment mode one Segment is emitted per URI line, in the order of
\* the lines, plus at most one final segment with an empty URI that holds
\* partial segments; the list returned has computed.segments.count entries
\* and no hole, also when there are more segments than the pre-sized array
\* holds.
C1_OneSegmentPerUriLine ==
    /\ pc = "segments" =>
           /\ segmentIndex = Cardinality(
                  {p \in (startIndex + 1)..lineIndex : isUriLine(lines[p])})
           /\ DOMAIN segments.items = 0..(segmentIndex - 1)
    /\ (pc = "returned" /\ SegmentModeEntered) =>
           LET segs == ReturnedSegments
               uris == UriPositions(lines, startIndex)
               n == Cardinality(uris)
           IN  /\ segs.length \in {n, n + 1}
               /\ segs.length = Val(result).computed.segments.count
               /\ DOMAIN segs.items = 0..(segs.length - 1)
               /\ \A p \in uris :
                      segs.items[RankIn(uris, p)].verbatimSegmentUri
                          = Trim(lines[p])
               /\ segs.length = n + 1 =>
                      /\ segs.items[n].verbatimSegmentUri = <<>>
                      /\ segs.items[n].partialSegments # <<>>

\* C1, its case: a playlist is returned with more segments than the
\* pre-sized array held, the last of them the one for trailing partial
\* segments.
C1_Witness ==
    /\ pc = "returned"
    /\ SegmentModeEntered
    /\ Val(result).computed.segments.count
           > estimatedSegments(Len(lines) - startIndex)
    /\ ReturnedSegments.items[ReturnedSegments.length - 1].verbatimSegmentUri
           = <<>>

\* C2: the call fails with HLS_PLAYLIST_HEADER_MISSING exactly when the first
\* line of the normalized, trimmed text (a non-empty line, unless the text
\* is empty) does not match the header; then nothing is returned, and no
\* directive has been parsed.
C2_HeaderMissing ==
    pc # "idle" =>
        /\ Len(lines) >= 1
        /\ lines[1] # <<>> \/ Len(lines) = 1
        /\ (error.code = HLS_PLAYLIST_HEADER_MISSING) <=> ~header(lines[1])
        /\ error.code = HLS_PLAYLIST_HEADER_MISSING =>
               /\ pc = "thrown"
               /\ result = None
               /\ globalId_ = 0
               /\ heap = <<>>
               /\ tags = <<>>

\* C2, its case: a text of several lines is rejected whose first line starts
\* with #EXTM3U but goes on.
C2_Witness ==
    /\ pc = "thrown"
    /\ error.code = HLS_PLAYLIST_HEADER_MISSING
    /\ Len(lines) > 1
    /\ StartsWith(lines[1], <<"#", "E", "X", "T", "M", "3", "U">>)

\* C3, as amended: when the first directive that decides the type is an
\* EXT-X-STREAM-INF or EXT-X-MEDIA, and a later line that the scan parses
\* (not the line taken as the URI of an EXT-X-STREAM-INF) is a segment-only
\* directive, and every line parsed before it has the shape of a directive,
\* the call fails with HLS_INVALID_PLAYLIST_HIERARCHY.
C3_InvalidHierarchy ==
    Ended =>
        \A j, k \in 0..(Len(lines) - 1) :
            (/\ header(lines[1])
             /\ j < k
             /\ FirstTypeDetermining(lines, j)
             /\ DirectiveNamed(lines[j + 1], Declarations)
             /\ ScannedLine(lines, k)
             /\ DirectiveNamed(lines[k + 1], SEGMENT_TAGS)
             /\ WellFormedBefore(lines, k))
            => /\ pc = "thrown"
               /\ error = Error(HLS_INVALID_PLAYLIST_HIERARCHY, <<>>)
               /\ result = None

\* C3, its case: the line after an EXT-X-STREAM-INF is a segment-only
\* directive and is passed over, and the segment-only directive after it
\* fails the call.
C3_Witness ==
    /\ pc = "thrown"
    /\ error.code = HLS_INVALID_PLAYLIST_HIERARCHY
    /\ i >= 2
    /\ ConsumedLine(lines, i - 1)
    /\ DirectiveNamed(lines[i], SEGMENT_TAGS)

\* C3, as stated: the same for every position of the segment-only directive
\* after the declaration, the line right after an EXT-X-STREAM-INF
\* included.
C3_AnyPosition ==
    Ended =>
        \A j, k \in 0..(Len(lines) - 1) :
            (/\ header(lines[1])
             /\ j < k
             /\ FirstTypeDetermining(lines, j)
             /\ DirectiveNamed(lines[j + 1], Declarations)
             /\ DirectiveNamed(lines[k + 1], SEGMENT_TAGS)
             /\ WellFormedBefore(lines, k))
            => error.code = HLS_INVALID_PLAYLIST_HIERARCHY

\* C4: a line that the scan parses (not a comment, not the line taken as the
\* URI of an EXT-X-STREAM-INF) before segment mode and that has not the shape
\* #EXT<name>[:rest] fails the call with INVALID_HLS_TAG, and the error
\* carries that line.
C4_MalformedDirective ==
    Ended =>
        \A k \in 0..(Len(lines) - 1) :
            (/\ header(lines[1])
             /\ ScannedLine(lines, k)
             /\ ~tagBlocks(lines[k + 1]).matched
             /\ \A m \in 0..(k - 1) :
                    ScannedLine(lines, m) =>
                        /\ tagBlocks(lines[m + 1]).matched
                        /\ tagBlocks(lines[m + 1]).name \notin SEGMENT_TAGS)
            => /\ pc = "thrown"
               /\ error = Error(INVALID_HLS_TAG, <<lines[k + 1]>>)
               /\ result = None

\* C4, its case: after some directives, a line without '#' fails the call.
C4_Witness ==
    /\ pc = "thrown"
    /\ error = Error(INVALID_HLS_TAG, <<L_URI>>)
    /\ tags # <<>>

\* C5, as stated: every call ends with a Playlist or with one of
\* HLS_PLAYLIST_HEADER_MISSING, HLS_INVALID_PLAYLIST_HIERARCHY and
\* INVALID_HLS_TAG; an EXTINF without a value does not end it otherwise.
C5_FourOutcomes ==
    Ended =>
        \/ pc = "returned" /\ result # None /\ error = NoError
        \/ /\ pc = "thrown"
           /\ result = None
           /\ error.code \in {HLS_PLAYLIST_HEADER_MISSING,
                              HLS_INVALID_PLAYLIST_HIERARCHY,
                              INVALID_HLS_TAG}

\* C6: the type is decided once, by the first directive parsed that is
\* media-playlist-only or segment-only (MEDIA) or EXT-X-STREAM-INF or
\* EXT-X-MEDIA (MASTER); no later step changes it, and the playlist returned
\* has that type, MASTER if no directive decides.
C6_StickyType ==
    [][/\ (pc \in {"scan", "segments"} /\ typeDetected) =>
              /\ typeDetected'
              /\ playlistType' = playlistType
       /\ pc' = "returned" => Val(result').type = ExpectedType(lines')]_vars

\* C6, its case: a playlist with an EXT-X-STREAM-INF tag is returned as
\* MEDIA, a media-playlist-only directive having come first.
C6_Witness ==
    /\ pc = "returned"
    /\ Val(result).type = MEDIA
    /\ \E n \in 1..Len(tags) : heap[tags[n]].name = EXT_X_STREAM_INF

\* C7, as stated: the playlist returned has segments exactly when its type
\* is MEDIA.
C7_SegmentsIffMedia ==
    pc = "returned" =>
        ((Val(result).segments # None) <=> (Val(result).type = MEDIA))

\* C8: when the scan parses an EXT-X-STREAM-INF, the tag gets one more
\* attribute, named URI, whose value is the next line, and the next step
\* passes over that line: no tag, no id, no type detection, no error.
C8_StreamInfUri ==
    [][/\ (/\ pc = "scan"
           /\ i < Len(lines)
           /\ ~skip
           /\ ~isComment(lines[i + 1])
           /\ DirectiveNamed(lines[i + 1], {EXT_X_STREAM_INF}))
          => /\ pc' = "scan"
             /\ skip'
             /\ i' = i + 1
             /\ globalId_' = globalId_ + 1
             /\ tags' = Append(tags, globalId_)
             /\ heap'[globalId_].attributes
                    = Append(parseTag(globalId_, lines[i + 1]).attributes,
                             Attribute(A_URI,
                                 IF i + 1 < Len(lines)
                                 THEN Some(lines[i + 2]) ELSE None))
       /\ (pc = "scan" /\ skip /\ i >= 1 /\ i < Len(lines))
          => /\ i' = i + 1
             /\ ~skip'
             /\ UNCHANGED <<globalId_, heap, pc, playlistType, typeDetected,
                            tags, tagIndex, result, error>>]_vars

\* C8, its case: a playlist is returned with an EXT-X-STREAM-INF tag whose
\* URI is a line that reads as a directive.
C8_Witness ==
    /\ pc = "returned"
    /\ \E n \in 1..Len(tags) :
           /\ heap[tags[n]].name = EXT_X_STREAM_INF
           /\ getAttributeValue(heap[tags[n]], A_URI) = Some(L_EXTINF_5)

\* C9, as stated: a segment emitted after an EXT-X-MAP (or an
\* EXT-X-PRELOAD-HINT with TYPE=MAP) of segment mode has computed.map set,
\* to the tag of the last such directive before its URI line.
C9_CarriedMap ==
    (pc = "returned" /\ SegmentModeEntered) =>
        LET uris == UriPositions(lines, startIndex)
        IN  \A p \in uris :
                LET maps == {q \in (startIndex + 1)..(p - 1) :
                                IsMapDirective(lines[q])}
                    c == ReturnedSegments.items[RankIn(uris, p)].computed
                IN  maps # {} =>
                        /\ c.map # Null
                        /\ SameTag(heap[c.map],
                               renamed(parseTag(0, lines[MaxOf(maps)])))

IsPartTag(tag) ==
    \/ tag.name = EXT_X_PART
    \/ /\ tag.name = EXT_X_PRELOAD_HINT
       /\ getAttributeValue(tag, A_TYPE) = Some(V_PART)

\* The positions, after the first from lines and up to upto, of the
\* partial-segment directives with no URI line after them up to upto.
PendingParts(ls, from, upto) ==
    {q \in (from + 1)..upto :
        /\ IsPartialSegmentDirective(ls[q])
        /\ \A u \in (q + 1)..upto : ~isUriLine(ls[u])}

\* The tags of the list are those of the lines at the positions S, in order.
TagsOfLines(ids, ls, S) ==
    /\ Len(ids) = Cardinality(S)
    /\ \A p \in S : SameTag(heap[ids[RankIn(S, p) + 1]], parseTag(0, ls[p]))

\* No tag of the list is a partial segment.
NoPartTag(ids) == \A k \in 1..Len(ids) : ~IsPartTag(heap[ids[k]])

\* C11: in segment mode the pending partial-segment list is the list of the
\* EXT-X-PART and TYPE=PART EXT-X-PRELOAD-HINT directives read since the last
\* URI line (so it is empty after a URI line), the partialSegments of every
\* segment returned are those read since the URI line before its own, in
\* order, and no such directive is among the tags of a segment.
C11_PartialSegments ==
    /\ pc = "segments" =>
           /\ TagsOfLines(partialSegmentTags, lines,
                          PendingParts(lines, startIndex, lineIndex))
           /\ NoPartTag(segmentTags)
    /\ (pc = "returned" /\ SegmentModeEntered) =>
           LET segs == ReturnedSegments
               uris == UriPositions(lines, startIndex)
               n == Cardinality(uris)
           IN  /\ \A p \in uris :
                      LET seg == segs.items[RankIn(uris, p)]
                      IN  /\ TagsOfLines(seg.partialSegments, lines,
                                  PendingParts(lines, startIndex, p - 1))
                          /\ NoPartTag(seg.tags)
               /\ segs.length = n + 1 =>
                      /\ TagsOfLines(segs.items[n].partialSegments, lines,
                              PendingParts(lines, startIndex, Len(lines)))
                      /\ NoPartTag(segs.items[n].tags)

\* C11, its case: a segment with a URI is returned with an EXT-X-PART and
\* an EXT-X-PRELOAD-HINT among its partial segments.
C11_Witness ==
    /\ pc = "returned"
    /\ SegmentModeEntered
    /\ \E r \in DOMAIN ReturnedSegments.items :
           LET seg == ReturnedSegments.items[r]
           IN  /\ seg.verbatimSegmentUri # <<>>
               /\ \E k \in 1..Len(seg.partialSegments) :
                      heap[seg.partialSegments[k]].name = EXT_X_PART
               /\ \E k \in 1..Len(seg.partialSegments) :
                      heap[seg.partialSegments[k]].name = EXT_X_PRELOAD_HINT

\* The line is a well-formed EXT-X-PRELOAD-HINT whose TYPE is MAP.
IsMapHintLine(line) ==
    /\ isDirectiveLine(line)
    /\ ~parseTagThrows(line)
    /\ parseTag(0, line).name = EXT_X_PRELOAD_HINT
    /\ getAttributeValue(parseTag(0, line), A_TYPE) = Some(V_MAP)

\* No tag of the list is called EXT-X-PRELOAD-HINT with TYPE=MAP.
NoMapHint(h, ids) ==
    \A k \in 1..Len(ids) :
        ~(/\ h[ids[k]].name = EXT_X_PRELOAD_HINT
          /\ getAttributeValue(h[ids[k]], A_TYPE) = Some(V_MAP))

\* The step of the segment loop on an EXT-X-PRELOAD-HINT with TYPE=MAP.
MapHintStep ==
    /\ pc = "segments"
    /\ lineIndex < Len(lines)
    /\ IsMapHintLine(lines[lineIndex + 1])
    /\ lineIndex' = lineIndex + 1

\* C12: in segment mode an EXT-X-PRELOAD-HINT with TYPE=MAP is stored under
\* the name EXT-X-MAP with the id and the attributes (TYPE=MAP among them) of
\* its line, becomes the carried map in place of any earlier one, and is
\* added neither to the pending partial segments nor to the pending segment
\* tags, where no tag is ever a preload hint of TYPE=MAP.
C12_MapHintRenamed ==
    [][(MapHintStep =>
           LET parsed == parseTag(globalId_, lines[lineIndex + 1])
           IN  /\ heap'[globalId_] = [parsed EXCEPT !.name = EXT_X_MAP]
               /\ heap'[globalId_].id = globalId_
               /\ getAttributeValue(heap'[globalId_], A_TYPE) = Some(V_MAP)
               /\ currentMapTag' = globalId_
               /\ partialSegmentTags' = partialSegmentTags
               /\ segmentTags' = segmentTags)
       /\ (pc' = "segments" =>
              /\ NoMapHint(heap', segmentTags')
              /\ NoMapHint(heap', partialSegmentTags'))]_vars

\* C12, its case: a segment is returned whose carried map is a tag called
\* EXT-X-MAP with TYPE=MAP, read after an EXT-X-MAP directive that it
\* superseded.
C12_Witness ==
    /\ pc = "returned"
    /\ SegmentModeEntered
    /\ \E r \in DOMAIN ReturnedSegments.items :
           LET seg == ReturnedSegments.items[r]
               map == heap[seg.tags[Len(seg.tags)]]
           IN  /\ seg.tags # <<>>
               /\ map.name = EXT_X_MAP
               /\ getAttributeValue(map, A_TYPE) = Some(V_MAP)
               /\ \E k \in DOMAIN heap :
                      /\ k < map.id
                      /\ heap[k].name = EXT_X_MAP
                      /\ getAttributeValue(heap[k], A_TYPE) = None

(***************************************************************************)
(* Properties of the analysis of the segments.                             *)
(***************************************************************************)

A_GAP == <<"G", "A", "P">>
V_YES == <<"Y", "E", "S">>

\* computed.segments of the playlist returned.
ReturnedAnalysis == Val(result).computed.segments

\* The returned segments with an EXT-X-GAP among their tags.
SegmentsWithGapTag ==
    {r \in DOMAIN ReturnedSegments.items :
        \E k \in 1..Len(ReturnedSegments.items[r].tags) :
            heap[ReturnedSegments.items[r].tags[k]].name = EXT_X_GAP}

\* The partial segments returned, as pairs of a segment and a place in its
\* list, that satisfy Test.
PartialSegmentsWhere(Test(_)) ==
    {rk \in UNION {{<<r, k>> :
                      k \in 1..Len(ReturnedSegments.items[r].partialSegments)} :
                   r \in DOMAIN ReturnedSegments.items} :
        Test(heap[ReturnedSegments.items[rk[1]].partialSegments[rk[2]]])}

HasGapYes(tag) == getAttributeValue(tag, A_GAP) = Some(V_YES)
HasGapAttribute(tag) == getAttribute(tag, A_GAP) # None
AnyTag(tag) == TRUE

\* C13: gapCount is the number of segments with an EXT-X-GAP plus the number
\* of partial-segment tags with GAP=YES.
C13_GapCount ==
    (pc = "returned" /\ SegmentModeEntered) =>
        ReturnedAnalysis.gapCount
            = Cardinality(SegmentsWithGapTag)
              + Cardinality(PartialSegmentsWhere(HasGapYes))

\* C14: when no partial segment has a GAP attribute, gapCount is the number
\* of the returned segments whose computed.gap is not null, the final
\* segment with the empty URI among them.
C14_GapCountOfSegments ==
    (/\ pc = "returned"
     /\ SegmentModeEntered
     /\ PartialSegmentsWhere(HasGapAttribute) = {}) =>
        ReturnedAnalysis.gapCount
            = Cardinality({r \in DOMAIN ReturnedSegments.items :
                              ReturnedSegments.items[r].computed.gap # Null})

\* The returned segments with an EXTINF in their computed view.
SegmentsWithExtinf ==
    {r \in DOMAIN ReturnedSegments.items :
        ReturnedSegments.items[r].computed.extinf # Null}

\* C15: lastExtinfDuration is the extinfDuration of the last returned
\* segment that has an EXTINF, the final segment with the empty URI
\* included, and null when no segment has one.
C15_LastExtinfDuration ==
    (pc = "returned" /\ SegmentModeEntered) =>
        ReturnedAnalysis.lastExtinfDuration
            = IF SegmentsWithExtinf = {} THEN None
              ELSE Some(ReturnedSegments.items[
                            CHOOSE r \in SegmentsWithExtinf :
                                \A q \in SegmentsWithExtinf : q <= r]
                        .computed.extinfDuration)

\* C16: when a segment of the playlist returned has a partial segment,
\* computed.segments has isLowLatency, and it is true.
C16_IsLowLatency ==
    (/\ pc = "returned"
     /\ SegmentModeEntered
     /\ PartialSegmentsWhere(AnyTag) # {}) =>
        /\ "isLowLatency" \in DOMAIN ReturnedAnalysis
        /\ ReturnedAnalysis.isLowLatency = TRUE

(***************************************************************************)
(* Properties of the directives of the playlist.                           *)
(***************************************************************************)

\* The directives that the claim calls media-playlist-only.
MediaPlaylistOnly ==
    {EXT_X_TARGETDURATION, EXT_X_MEDIA_SEQUENCE, EXT_X_DISCONTINUITY_SEQUENCE,
     EXT_X_PLAYLIST_TYPE, EXT_X_I_FRAMES_ONLY, EXT_X_ENDLIST,
     EXT_X_SERVER_CONTROL, EXT_X_SKIP, EXT_X_PART_INF, EXT_X_DATERANGE}

\* The step of the segment loop on a well-formed directive of that kind.
MediaPlaylistOnlyStep ==
    /\ pc = "segments"
    /\ lineIndex < Len(lines)
    /\ isDirectiveLine(lines[lineIndex + 1])
    /\ ~parseTagThrows(lines[lineIndex + 1])
    /\ parseTag(0, lines[lineIndex + 1]).name \in MediaPlaylistOnly
    /\ lineIndex' = lineIndex + 1

\* C17: in segment mode a media-playlist-only directive is appended to the
\* tags of the playlist and folded into the tag index, and the pending
\* segment tags, partial segments and computed view, the carried map, and
\* the segments made so far stay as they were.
C17_MediaPlaylistOnlyFrame ==
    [][MediaPlaylistOnlyStep =>
           LET tag == parseTag(globalId_, lines[lineIndex + 1])
           IN  /\ heap'[globalId_] = tag
               /\ tags' = Append(tags, globalId_)
               /\ tagIndex' = updateTagIndexForTag_(tagIndex, tag)
               /\ segmentTags' = segmentTags
               /\ partialSegmentTags' = partialSegmentTags
               /\ computed' = computed
               /\ currentMapTag' = currentMapTag
               /\ segments' = segments
               /\ segmentIndex' = segmentIndex
               /\ gapCount' = gapCount
               /\ lastExtinfDuration' = lastExtinfDuration]_vars

\* C17, its case: a playlist is returned with a segment that has a duration,
\* a map and a partial segment, and with an EXT-X-ENDLIST among the tags of
\* the playlist that was read after the segment's EXTINF, map and part.
C17_Witness ==
    /\ pc = "returned"
    /\ SegmentModeEntered
    /\ \E r \in DOMAIN ReturnedSegments.items :
       \E k \in 1..Len(tags) :
           LET seg == ReturnedSegments.items[r]
           IN  /\ seg.computed.extinf # Null
               /\ seg.computed.map # Null
               /\ seg.partialSegments # <<>>
               /\ heap[tags[k]].name = EXT_X_ENDLIST
               /\ tags[k] > seg.partialSegments[1]
               /\ Val(result).computed.playlist.endListTag = tags[k]

\* The single-valued slots of the tag index, each with its directive.
SingleValuedSlots ==
    {<<"skipTag", EXT_X_SKIP>>, <<"endListTag", EXT_X_ENDLIST>>,
     <<"serverControlTag", EXT_X_SERVER_CONTROL>>,
     <<"playlistTypeTag", EXT_X_PLAYLIST_TYPE>>,
     <<"startTag", EXT_X_START>>, <<"partInfTag", EXT_X_PART_INF>>,
     <<"targetDurationTag", EXT_X_TARGETDURATION>>}

\* The positions of the lines after the first with the directive name.
PositionsNamed(ls, name) ==
    {p \in 2..Len(ls) : DirectiveNamed(ls[p], {name})}

\* The places in the tags of the playlist of the tags called name.
PlacesNamed(name) == {k \in 1..Len(tags) : heap[tags[k]].name = name}

\* C20: each single-valued slot holds the tag of the first line of the
\* document with its directive, and null when there is none; every line
\* with the directive has its tag in the tags of the playlist, none of them
\* read before the one in the slot.
C20_FirstOccurrence ==
    pc = "returned" =>
        \A s \in SingleValuedSlots :
            LET ps == PositionsNamed(lines, s[2])
                slot == Val(result).computed.playlist[s[1]]
            IN  IF ps = {} THEN slot = Null
                ELSE /\ slot # Null
                     /\ SameTag(heap[slot],
                                parseTag(0, lines[CHOOSE p \in ps :
                                                     \A q \in ps : p <= q]))
                     /\ Cardinality(PlacesNamed(s[2])) = Cardinality(ps)
                     /\ \A k \in PlacesNamed(s[2]) : slot <= tags[k]

(***************************************************************************)
(* Properties of the tag ids.                                              *)
(***************************************************************************)

\* The members of a list.
Range(s) == {s[k] : k \in 1..Len(s)}

\* The ids of the tags that a segment refers to.
SegmentIds(seg) ==
    Range(seg.tags) \cup Range(seg.partialSegments) \cup Range(seg.computed.keys)
    \cup ({seg.computed.extinf, seg.computed.map, seg.computed.gap,
           seg.computed.byterange, seg.computed.discontinuity,
           seg.computed.dateTime, seg.computed.tiles} \ {Null})

\* The ids of the tags that a tag index refers to.
IndexIds(index) ==
    ({index.skipTag, index.endListTag, index.serverControlTag,
      index.playlistTypeTag, index.startTag, index.partInfTag,
      index.targetDurationTag} \ {Null})
    \cup Range(index.variableTags) \cup Range(index.dateRangeTags)
    \cup Range(index.mediaTags) \cup Range(index.variantTags)
    \cup Range(index.imageTags) \cup Range(index.iFrameTags)
    \cup Range(index.sessionKeyTags) \cup Range(index.sessionDataTags)
    \cup Range(index.contentSteeringTags)

\* The ids of the tags that can be reached from a playlist.
PlaylistIds(playlist) ==
    Range(playlist.tags) \cup IndexIds(playlist.computed.playlist)
    \cup UNION {SegmentIds(Val(playlist.segments).items[r]) :
                   r \in DOMAIN Val(playlist.segments).items}

\* The directives parsed by a call that returns, as pairs of a line (counted
\* from 0) and 0 for the scan or 1 for the segment loop: the scan parses the
\* lines it does not skip up to the one that starts the segments, and the
\* segment loop parses that one again and every directive after it.
ParsesOf(ls, start) ==
    {<<k, 0>> : k \in {m \in 1..(IF start > 0 THEN start ELSE Len(ls) - 1) :
                          ScannedLine(ls, m)}}
    \cup {<<k, 1>> : k \in {m \in start..(Len(ls) - 1) :
                               start > 0 /\ isDirectiveLine(ls[m + 1])}}

\* The order of the parses.
ParsedBefore(a, b) == a[1] < b[1] \/ (a[1] = b[1] /\ a[2] < b[2])

\* The name under which the parsed tag of the line is kept.
KeptName(line, inSegments) ==
    IF inSegments = 1 /\ IsMapHintLine(line) THEN EXT_X_MAP
    ELSE parseTag(0, line).name

\* Every tag reachable from the playlist returned is the tag of a directive
\* of the input, and its id is the number of directives parsed before it.
IdsFollowLines ==
    LET parses == ParsesOf(lines, startIndex)
        ids == PlaylistIds(Val(result))
        rank == [e \in parses |->
                    Cardinality({x \in parses : ParsedBefore(x, e)})]
        lineOf == [id \in ids |-> CHOOSE e \in parses : rank[e] = id]
    IN  /\ \A id \in ids :
               /\ \E e \in parses : rank[e] = id
               /\ heap[id].id = id
               /\ heap[id].name
                      = KeptName(lines[lineOf[id][1] + 1], lineOf[id][2])
               /\ heap[id].value = parseTag(0, lines[lineOf[id][1] + 1]).value
        /\ \A a, b \in ids :
               ParsedBefore(lineOf[a], lineOf[b]) => a < b

\* C18: a step that makes a tag gives it an id above the ids of all the tags
\* made before it, and in the playlist returned every reachable tag is the
\* tag of a directive line with as id the number of directives parsed before
\* it, so that of two reachable tags the one of the earlier line has the
\* smaller id.
C18_IdsIncrease ==
    /\ [][heap' # heap =>
              \E k \in DOMAIN heap' :
                  /\ \A j \in DOMAIN heap : j < k
                  /\ heap'[k].id = k
                  /\ \A j \in DOMAIN heap : heap'[j] = heap[j]]_vars
    /\ [](pc = "returned" => IdsFollowLines)

\* C18, its case: a playlist is returned with tags from the scan, from the
\* segment loop, a partial segment and a carried map, four ids at least.
C18_Witness ==
    /\ pc = "returned"
    /\ SegmentModeEntered
    /\ tags # <<>>
    /\ \E r \in DOMAIN ReturnedSegments.items :
           /\ ReturnedSegments.items[r].partialSegments # <<>>
           /\ ReturnedSegments.items[r].computed.map # Null
           /\ ReturnedSegments.items[r].computed.extinf # Null
    /\ Cardinality(PlaylistIds(Val(result))) >= 4

(***************************************************************************)
(* Properties of two calls on the same data.                               *)
(***************************************************************************)

\* An id, a list of ids, and the structures that hold ids, with d added to
\* every id.
ShiftId(x, d) == IF x = Null THEN Null ELSE x + d
ShiftIds(s, d) == [k \in 1..Len(s) |-> s[k] + d]
ShiftComputed(c, d) ==
    [c EXCEPT !.extinf = ShiftId(@, d), !.map = ShiftId(@, d),
              !.mapId = ShiftId(@, d), !.gap = ShiftId(@, d),
              !.byterange = ShiftId(@, d), !.discontinuity = ShiftId(@, d),
              !.keys = ShiftIds(@, d), !.dateTime = ShiftId(@, d),
              !.tiles = ShiftId(@, d)]
ShiftSegment(seg, d) ==
    [seg EXCEPT !.tags = ShiftIds(@, d), !.partialSegments = ShiftIds(@, d),
                !.computed = ShiftComputed(@, d)]
ShiftIndex(index, d) ==
    [index EXCEPT
        !.skipTag = ShiftId(@, d), !.endListTag = ShiftId(@, d),
        !.serverControlTag = ShiftId(@, d),
        !.playlistTypeTag = ShiftId(@, d), !.startTag = ShiftId(@, d),
        !.partInfTag = ShiftId(@, d), !.targetDurationTag = ShiftId(@, d),
        !.variableTags = ShiftIds(@, d), !.dateRangeTags = ShiftIds(@, d),
        !.mediaTags = ShiftIds(@, d), !.variantTags = ShiftIds(@, d),
        !.imageTags = ShiftIds(@, d), !.iFrameTags = ShiftIds(@, d),
        !.sessionKeyTags = ShiftIds(@, d),
        !.sessionDataTags = ShiftIds(@, d),
        !.contentSteeringTags = ShiftIds(@, d)]
ShiftPlaylist(playlist, d) ==
    LET array == Val(playlist.segments)
    IN  [type |-> playlist.type,
         tags |-> ShiftIds(playlist.tags, d),
         computed |-> [playlist |-> ShiftIndex(playlist.computed.playlist, d),
                       segments |-> playlist.computed.segments],
         segments |-> Some([length |-> array.length,
                            items |-> [r \in DOMAIN array.items |->
                                          ShiftSegment(array.items[r], d)]])]

\* The second playlist is the first with d added to every id, tag for tag.
SameButForIds(first, second, d) ==
    /\ second = ShiftPlaylist(first, d)
    /\ \A id \in PlaylistIds(first) :
           /\ SameTag(heap[id], heap[id + d])
           /\ heap[id + d].id = id + d

V_0 == <<"0">>

\* The tags of the playlist called name, in order.
TagsNamed(name) ==
    SelectSeq([k \in 1..Len(tags) |-> heap[tags[k]]],
              LAMBDA tag : tag.name = name)

\* The tag index of the playlist returned.
ReturnedIndex == Val(result).computed.playlist

\* C21: discontinuitySequence is -1 when the playlist has no
\* EXT-X-DISCONTINUITY-SEQUENCE or the one that counts (the last) has no
\* value, and 0, which is not -1, when that one has the value 0.
C21_DiscontinuitySequence ==
    pc = "returned" =>
        LET found == TagsNamed(EXT_X_DISCONTINUITY_SEQUENCE)
            last == found[Len(found)]
        IN  /\ found = <<>> => ReturnedIndex.discontinuitySequence = Num(-1)
            /\ (found # <<>> /\ last.value = None) =>
                   ReturnedIndex.discontinuitySequence = Num(-1)
            /\ (found # <<>> /\ last.value = Some(V_0)) =>
                   /\ ReturnedIndex.discontinuitySequence = Num(0)
                   /\ ReturnedIndex.discontinuitySequence # Num(-1)

\* C21, its case: a playlist is returned whose EXT-X-DISCONTINUITY-SEQUENCE
\* has the value 0, after one without a value.
C21_Witness ==
    /\ pc = "returned"
    /\ Len(TagsNamed(EXT_X_DISCONTINUITY_SEQUENCE)) = 2
    /\ TagsNamed(EXT_X_DISCONTINUITY_SEQUENCE)[1].value = None
    /\ TagsNamed(EXT_X_DISCONTINUITY_SEQUENCE)[2].value = Some(V_0)
    /\ ReturnedIndex.discontinuitySequence = Num(0)

\* The number that the claim gives to optional text: the number written, or
\* the fallback when the text is missing or is not a number.
NumberOrFallback(text, fallback) ==
    IF text = None \/ ToNumber(Val(text)).nan THEN Num(fallback)
    ELSE ToNumber(Val(text))

\* The text before the first comma.
BeforeComma(text) ==
    SubSeq(text, 1, RunEnd(text, 1, LAMBDA c : c # ",") - 1)

\* C22: in the playlist returned mediaSequence, skippedSegments and
\* discontinuitySequence are the numbers written in the last directive of
\* their name, and the extinfDuration of a segment is the number written in
\* its EXTINF; each is the fallback (0, and -1 for discontinuitySequence)
\* when the value is missing or is not a number, and the bitrate of a
\* segment is a number too.
C22_NumbersOrFallback ==
    pc = "returned" =>
        LET seqs == TagsNamed(EXT_X_MEDIA_SEQUENCE)
            skips == TagsNamed(EXT_X_SKIP)
            discs == TagsNamed(EXT_X_DISCONTINUITY_SEQUENCE)
        IN  /\ ReturnedIndex.mediaSequence
                   = IF seqs = <<>> THEN Num(0)
                     ELSE NumberOrFallback(seqs[Len(seqs)].value, 0)
            /\ ReturnedIndex.skippedSegments
                   = IF skips = <<>> THEN Num(0)
                     ELSE NumberOrFallback(
                              getAttributeValue(skips[Len(skips)],
                                                A_SKIPPED_SEGMENTS), 0)
            /\ ReturnedIndex.discontinuitySequence
                   = IF discs = <<>> THEN Num(-1)
                     ELSE NumberOrFallback(discs[Len(discs)].value, -1)
            /\ \A r \in DOMAIN ReturnedSegments.items :
                   LET c == ReturnedSegments.items[r].computed
                   IN  /\ ~c.bitrate.nan
                       /\ c.extinfDuration
                              = IF c.extinf = Null THEN Num(0)
                                ELSE IF heap[c.extinf].value = None
                                     THEN Num(0)
                                     ELSE NumberOrFallback(
                                              Some(BeforeComma(
                                                  Val(heap[c.extinf].value))),
                                              0)

(***************************************************************************)
(* Properties of the playlists without segments.                           *)
(***************************************************************************)

\* The lines (counted from 0) that the scan parses when it reads them all.
ScannedLines(ls) == {k \in 1..(Len(ls) - 1) : ScannedLine(ls, k)}

\* The tag is the one parsed from the line, but for its id and for
\* attributes added after those of the line.
TagOfLine(tag, line) ==
    LET parsed == parseTag(0, line)
    IN  /\ tag.name = parsed.name
        /\ tag.value = parsed.value
        /\ Len(tag.attributes) >= Len(parsed.attributes)
        /\ SubSeq(tag.attributes, 1, Len(parsed.attributes))
               = parsed.attributes

\* C23: when all the lines are scanned and none starts the segments, the
\* playlist returned has no segments, the analysis of its segments is
\* {count: 0, gapCount: 0, lastExtinfDuration: null}, and its tags are
\* those of the scanned directives, one each, in the order of the lines.
C23_NoSegmentMode ==
    (pc = "returned" /\ ~SegmentModeEntered) =>
        LET scanned == ScannedLines(lines)
        IN  /\ ReturnedSegments.length = 0
            /\ ReturnedSegments.items = <<>>
            /\ ReturnedAnalysis
                   = [count |-> 0, gapCount |-> 0, lastExtinfDuration |-> None]
            /\ Val(result).tags = tags
            /\ Len(tags) = Cardinality(scanned)
            /\ \A k \in scanned :
                   TagOfLine(heap[tags[RankIn(scanned, k) + 1]], lines[k + 1])
            /\ \A k \in scanned : ~DirectiveNamed(lines[k + 1], SEGMENT_TAGS)

\* C23, its case: a playlist of two tags or more is returned that has a
\* comment and the URI of an EXT-X-STREAM-INF among its lines.
C23_Witness ==
    /\ pc = "returned"
    /\ ~SegmentModeEntered
    /\ Len(tags) >= 2
    /\ Len(lines) > Len(tags) + 2
    /\ \E k \in 1..Len(tags) : heap[tags[k]].name = EXT_X_STREAM_INF
    /\ \E k \in 2..Len(lines) : isComment(lines[k])

(***************************************************************************)
(* C24: a directive written with canonical quoting is written back as it   *)
(* was read.                                                               *)
(***************************************************************************)

\* Canonical quoting: the value of an attribute is written without quotes
\* when it is a number, and between quotes otherwise; the empty value is no
\* number.
Canonical(w) == w.quoted = (w.value = <<>> \/ ToNumber(w.value).nan)
CanonicalTexts ==
    {TagText(w) : w \in {v \in WrittenTags :
        \A k \in 1..Len(v.attributes) : Canonical(v.attributes[k])}}

\* C24: for every directive of one of the four shapes (a name; a name and a
\* value; a name and a list of attributes; a name, a value and a list of
\* attributes) written with canonical quoting, toString() of the tag that
\* parseTag made of it is the text of the directive itself.
C24_RoundTrip ==
    pc = "printed" /\ buffer \in CanonicalTexts => tagStr = Some(buffer)

(***************************************************************************)
(* C25: quoted values of attributes are kept whole.                        *)
(***************************************************************************)

\* The directives all of whose attributes, one at least, are written
\* between quotes.
QuotedTags ==
    {w \in WrittenTags :
        /\ w.attributes # <<>>
        /\ \A k \in 1..Len(w.attributes) : w.attributes[k].quoted}

\* C25: the tag that parseTag makes of a directive with k attributes written
\* between quotes has k attributes, in the order of the directive, each with
\* the name written and with what stands between the quotes as its value,
\* commas included.
C25_QuotedValuesKept ==
    pc = "parsed" =>
        \A w \in QuotedTags :
            TagText(w) = buffer =>
                heap[0].attributes =
                    [k \in 1..Len(w.attributes) |->
                        Attribute(w.attributes[k].key,
                                  Some(w.attributes[k].value))]

(***************************************************************************)
(* C26: the other directives of a segment.                                 *)
(***************************************************************************)

\* A directive of the segment loop that is not media-playlist-only, not an
\* EXT-X-MAP, not an EXT-X-PART and not an EXT-X-PRELOAD-HINT of TYPE PART or
\* MAP.
OtherDirective(line) ==
    /\ isDirectiveLine(line)
    /\ tagBlocks(line).matched
    /\ parseTag(0, line).name
           \notin MediaPlaylistOnly \cup {EXT_X_MAP, EXT_X_PART}
    /\ ~IsPartialSegmentDirective(line)
    /\ ~IsMapHintLine(line)

\* The id of the tag that the segment loop makes of line m (counted from 0)
\* on a fresh parser: the number of directives parsed before it.
IdInSegments(ls, start, m) ==
    Cardinality({x \in ParsesOf(ls, start) : ParsedBefore(x, <<m, 1>>)})

\* C26: in segment mode a directive of that kind, whatever its name and
\* whatever the TYPE of a preload hint, is appended to the pending segment
\* tags, and in the playlist returned its tag is among the tags of one
\* segment only, the one made at the next boundary after the directive.
C26_OtherDirectivesRetained ==
    /\ [][(/\ pc = "segments"
           /\ lineIndex < Len(lines)
           /\ OtherDirective(lines[lineIndex + 1])
           /\ lineIndex' = lineIndex + 1)
          => segmentTags' = Append(segmentTags, globalId_)]_vars
    /\ [](pc = "returned" /\ SegmentModeEntered =>
            \A m \in startIndex..(Len(lines) - 1) :
                OtherDirective(lines[m + 1]) =>
                    {r \in DOMAIN ReturnedSegments.items :
                        IdInSegments(lines, startIndex, m)
                            \in Range(ReturnedSegments.items[r].tags)}
                    = {Cardinality({p \in (startIndex + 1)..m :
                                       isUriLine(lines[p])})})

(***************************************************************************)
(* C27: the ids on a fresh parser.                                         *)
(***************************************************************************)

\* The number of directives that the scan parses before the one that starts
\* the segments, or in all when none does.
ScannedBefore ==
    Cardinality({m \in 1..(IF SegmentModeEntered THEN startIndex - 1
                           ELSE Len(lines) - 1) : ScannedLine(lines, m)})

\* The ids taken from the parser that are on no tag of the playlist returned.
AbsentIds == (0..(globalId_ - 1)) \ PlaylistIds(Val(result))

\* On a fresh parser the ids taken are as many as the directives parsed, the
\* one that starts the segments counted twice (so the header, the comments
\* and the line after an EXT-X-STREAM-INF take none); the scanned directives
\* have the ids from 0 in their order; the id of the scan's parse of the
\* directive that starts the segments is absent from the playlist, and the
\* tag that the segment loop makes of it has the next id, 2 more than the
\* directive parsed before it.
IdsOnFreshParser ==
    /\ startIndex < Len(lines)
    /\ globalId_ = Cardinality(ParsesOf(lines, startIndex))
    /\ Len(tags) >= ScannedBefore
    /\ SubSeq(tags, 1, ScannedBefore) = [k \in 1..ScannedBefore |-> k - 1]
    /\ SegmentModeEntered =>
           /\ ScannedBefore \in AbsentIds
           /\ heap[ScannedBefore + 1].id = ScannedBefore + 1
           /\ heap[ScannedBefore + 1].name
                  = KeptName(lines[startIndex + 1], 1)
           /\ heap[ScannedBefore + 1].value
                  = parseTag(0, lines[startIndex + 1]).value
           /\ \A id \in PlaylistIds(Val(result)) :
                  /\ heap[id].id = id
                  /\ id > ScannedBefore =>
                         \E m \in startIndex..(Len(lines) - 1) :
                             id = IdInSegments(lines, startIndex, m)

\* C27, as amended: the ids of a playlist returned by a fresh parser are
\* those of IdsOnFreshParser; the id of the scan's parse of the directive
\* that starts the segments is absent, and others may be.
C27_IdsOnFreshParser == pc = "returned" => IdsOnFreshParser

\* C27, its case: a playlist is returned whose segments start after a
\* scanned directive, and the tag of the directive that starts them is in
\* the playlist, with an id 2 more than the scanned one.
C27_Witness ==
    /\ pc = "returned"
    /\ SegmentModeEntered
    /\ ScannedBefore >= 1
    /\ ScannedBefore + 1 \in PlaylistIds(Val(result))
    /\ ScannedBefore - 1 \in PlaylistIds(Val(result))

\* C27, as stated: moreover exactly one id is absent from the playlist when
\* the segments have started.
C27_OneIdAbsent ==
    pc = "returned" =>
        /\ IdsOnFreshParser
        /\ SegmentModeEntered => Cardinality(AbsentIds) = 1

(***************************************************************************)
(* C28: the lists of the tag index.                                        *)
(***************************************************************************)

\* The lists of the tag index, each with the name of its directive.
MultiValuedLists ==
    {<<"variableTags", EXT_X_DEFINE>>, <<"dateRangeTags", EXT_X_DATERANGE>>,
     <<"mediaTags", EXT_X_MEDIA>>, <<"variantTags", EXT_X_STREAM_INF>>,
     <<"imageTags", EXT_X_IMAGE_STREAM_INF>>,
     <<"iFrameTags", EXT_X_I_FRAME_STREAM_INF>>,
     <<"sessionKeyTags", EXT_X_SESSION_KEY>>,
     <<"sessionDataTags", EXT_X_SESSION_DATA>>,
     <<"contentSteeringTags", EXT_X_CONTENT_STEERING>>}

\* The tags of the list that are called name, in the order of the list.
IdsNamed(ids, name) == SelectSeq(ids, LAMBDA id : heap[id].name = name)

\* C28: each list of the tag index (variableTags, dateRangeTags, mediaTags,
\* variantTags, imageTags, iFrameTags, sessionKeyTags, sessionDataTags,
\* contentSteeringTags) is the list of the tags of the playlist with the
\* name of its directive, in the same order: while the document is read,
\* and in the playlist returned.
C28_ListsFollowTags ==
    /\ pc \in {"scan", "segments"} =>
           \A s \in MultiValuedLists : tagIndex[s[1]] = IdsNamed(tags, s[2])
    /\ pc = "returned" =>
           \A s \in MultiValuedLists :
               ReturnedIndex[s[1]] = IdsNamed(Val(result).tags, s[2])

\* C28, its case: a playlist is returned with two tags in one of the lists
\* and a tag of another name between them among its tags.
C28_Witness ==
    /\ pc = "returned"
    /\ \E s \in MultiValuedLists :
          /\ Len(ReturnedIndex[s[1]]) = 2
          /\ Len(Val(result).tags) = 3
          /\ heap[Val(result).tags[2]].name # s[2]

(***************************************************************************)
(* C29: the computed view of a segment.                                    *)
(***************************************************************************)

\* The fields of the computed view that hold one tag, each with the name of
\* its directive.
SingleTagFields ==
    {<<"extinf", EXTINF>>, <<"gap", EXT_X_GAP>>,
     <<"byterange", EXT_X_BYTERANGE>>,
     <<"discontinuity", EXT_X_DISCONTINUITY>>,
     <<"dateTime", EXT_X_PROGRAM_DATE_TIME>>, <<"tiles", EXT_X_TILES>>}

\* The lines of the segment loop with the directive name that are read for
\* segment r (counted from 0): those after r URI lines.
LinesOfSegment(ls, start, r, name) ==
    {p \in (start + 1)..Len(ls) :
        /\ DirectiveNamed(ls[p], {name})
        /\ Cardinality({u \in (start + 1)..p : isUriLine(ls[u])}) = r}

\* C29: in every segment returned each of extinf, gap, byterange,
\* discontinuity, dateTime and tiles of the computed view is the first tag
\* with its name among the tags of the segment, and null when there is
\* none; computed.keys is the list of the EXT-X-KEY tags of the segment in
\* their order; and the tags of the segment hold one tag for every line
\* with one of these directives, the repeated ones too.
C29_ComputedFollowsTags ==
    (pc = "returned" /\ SegmentModeEntered) =>
        \A r \in DOMAIN ReturnedSegments.items :
            LET seg == ReturnedSegments.items[r]
            IN  /\ \A f \in SingleTagFields :
                       /\ seg.computed[f[1]] =
                              IF IdsNamed(seg.tags, f[2]) = <<>> THEN Null
                              ELSE IdsNamed(seg.tags, f[2])[1]
                       /\ Len(IdsNamed(seg.tags, f[2])) = Cardinality(
                              LinesOfSegment(lines, startIndex, r, f[2]))
                /\ seg.computed.keys = IdsNamed(seg.tags, EXT_X_KEY)
                /\ Len(seg.computed.keys) = Cardinality(
                       LinesOfSegment(lines, startIndex, r, EXT_X_KEY))

\* C29, its case: a segment of a URI line is returned with two tags of one
\* name among its tags, the first of them in the computed view.
C29_Witness ==
    /\ pc = "returned"
    /\ SegmentModeEntered
    /\ \E r \in DOMAIN ReturnedSegments.items :
          LET seg == ReturnedSegments.items[r]
          IN  /\ \E f \in SingleTagFields \ {<<"extinf", EXTINF>>} :
                    /\ Len(IdsNamed(seg.tags, f[2])) = 2
                    /\ seg.computed[f[1]] = IdsNamed(seg.tags, f[2])[1]
              /\ seg.verbatimSegmentUri # <<>>

(***************************************************************************)
(* C30: the segment loop does not hand back to the scan.                   *)
(***************************************************************************)

\* C30: once the scan has met the first segment-only directive the call
\* stays in the segment loop until it ends: no step goes back to the scan
\* or changes what the scan keeps, no step throws InvalidHierarchy, a line
\* that is neither a comment nor a directive makes a segment and is never
\* refused as a malformed directive, and an EXT-X-STREAM-INF or EXT-X-MEDIA
\* becomes a tag of the pending segment as it is written, with no URI added
\* from the next line (which is read as any other line), and leaves the
\* tags and the tag index of the playlist as they were.
C30_SegmentModeIsTerminal ==
    [][pc = "segments" =>
          (/\ pc' \in {"segments", "returned", "thrown"}
           /\ UNCHANGED scanVars
           /\ (pc' = "thrown" =>
                  error'.code # HLS_INVALID_PLAYLIST_HIERARCHY)
           /\ ((lineIndex < Len(lines) /\ isUriLine(lines[lineIndex + 1])) =>
                  (/\ pc' = "segments"
                   /\ segmentIndex' = segmentIndex + 1
                   /\ lineIndex' = lineIndex + 1))
           /\ ((/\ lineIndex < Len(lines)
                /\ isDirectiveLine(lines[lineIndex + 1])
                /\ DirectiveNamed(lines[lineIndex + 1], Declarations)) =>
                  (/\ pc' = "segments"
                   /\ lineIndex' = lineIndex + 1
                   /\ tags' = tags
                   /\ tagIndex' = tagIndex
                   /\ segmentTags' = Append(segmentTags, globalId_)
                   /\ SameTag(heap'[globalId_],
                              parseTag(0, lines[lineIndex + 1])))))]_vars

\* C30, its case: a segment is returned for the URI line after an
\* EXT-X-STREAM-INF of the segment loop, whose tag is among the tags of the
\* segment without a URI and is not in the tag index.
C30_Witness ==
    /\ pc = "returned"
    /\ SegmentModeEntered
    /\ ReturnedIndex.variantTags = <<>>
    /\ \E r \in DOMAIN ReturnedSegments.items :
          /\ ReturnedSegments.items[r].verbatimSegmentUri # <<>>
          /\ \E k \in 1..Len(ReturnedSegments.items[r].tags) :
                LET tag == heap[ReturnedSegments.items[r].tags[k]]
                IN  /\ tag.name = EXT_X_STREAM_INF
                    /\ getAttribute(tag, A_URI) = None

(***************************************************************************)
(* C31: EXT-X-DATERANGE, which is in both tables.                          *)
(***************************************************************************)

\* The scan parses an EXT-X-DATERANGE.
ScansDateRange ==
    /\ pc = "scan"
    /\ i < Len(lines)
    /\ ~scanSkips(lines[i + 1], skip)
    /\ DirectiveNamed(lines[i + 1], {EXT_X_DATERANGE})

\* The tags called EXT-X-DATERANGE that can be reached from the playlist
\* returned.
DateRangeIds ==
    {id \in PlaylistIds(Val(result)) : heap[id].name = EXT_X_DATERANGE}

\* C31: when the scan parses an EXT-X-DATERANGE in a document detected as a
\* master playlist it throws InvalidHierarchy, and otherwise (the type not
\* yet detected, or MEDIA) the type is MEDIA and the segment loop starts at
\* that line; in the playlist returned every EXT-X-DATERANGE tag is among
\* the tags of the playlist and in dateRangeTags, one for each such line
\* from the start of the segments, and none is among the tags or the
\* partial segments of a segment.
C31_DateRangeIsPlaylistScoped ==
    /\ [][ScansDateRange =>
              IF typeDetected /\ playlistType = MASTER
              THEN (/\ pc' = "thrown"
                    /\ error'.code = HLS_INVALID_PLAYLIST_HIERARCHY)
              ELSE (/\ pc' = "segments"
                    /\ playlistType' = MEDIA
                    /\ startIndex' = i
                    /\ lineIndex' = i)]_vars
    /\ [](pc = "returned" =>
            /\ DateRangeIds = Range(ReturnedIndex.dateRangeTags)
            /\ DateRangeIds \subseteq Range(Val(result).tags)
            /\ ReturnedIndex.dateRangeTags
                   = IdsNamed(Val(result).tags, EXT_X_DATERANGE)
            /\ SegmentModeEntered =>
                   Len(ReturnedIndex.dateRangeTags) = Cardinality(
                       {p \in (startIndex + 1)..Len(lines) :
                           DirectiveNamed(lines[p], {EXT_X_DATERANGE})})
            /\ \A r \in DOMAIN ReturnedSegments.items :
                   DateRangeIds \cap
                       (Range(ReturnedSegments.items[r].tags) \cup
                        Range(ReturnedSegments.items[r].partialSegments))
                   = {})

\* C31, its case: a media playlist is returned whose segments start at an
\* EXT-X-DATERANGE, with another one among the directives of a segment that
\* is returned: both are tags of the playlist.
C31_Witness ==
    /\ pc = "returned"
    /\ SegmentModeEntered
    /\ DirectiveNamed(lines[startIndex + 1], {EXT_X_DATERANGE})
    /\ Val(result).type = MEDIA
    /\ Len(ReturnedIndex.dateRangeTags) = 2
    /\ ReturnedSegments.length = 1
    /\ ReturnedSegments.items[0].tags # <<>>

(***************************************************************************)
(* C32: the map of the computed view.                                      *)
(***************************************************************************)

\* C32: in every segment returned computed.mapId is null when computed.map
\* is null and only then, and is the id of computed.map otherwise, and a
\* computed.map that is not null is among the tags of the segment itself.
C32_MapAmongTags ==
    (pc = "returned" /\ SegmentModeEntered) =>
        \A r \in DOMAIN ReturnedSegments.items :
            LET seg == ReturnedSegments.items[r]
            IN  /\ seg.computed.mapId = Null <=> seg.computed.map = Null
                /\ seg.computed.map # Null =>
                       /\ seg.computed.mapId = heap[seg.computed.map].id
                       /\ seg.computed.map \in Range(seg.tags)

(***************************************************************************)
(* C33: attributes with the same name.                                     *)
(***************************************************************************)

\* The names of the attributes of a tag.
AttributeNames(tag) ==
    {tag.attributes[k].name : k \in 1..Len(tag.attributes)}

\* C33: no tag that can be reached from a playlist returned has two
\* attributes with the same name: the assertion of Tag.getAttribute holds
\* for every such tag and every name, also for an EXT-X-STREAM-INF with the
\* URI added to it.
C33_NoDuplicateAttributes ==
    pc = "returned" =>
        \A id \in PlaylistIds(Val(result)) :
            \A name \in AttributeNames(heap[id]) :
                getAttributeAsserts(heap[id], name)

(***************************************************************************)
(* C34: partial segments anywhere in a media playlist.                     *)
(***************************************************************************)

\* The lines after the first, from line from on, that are an EXT-X-PART or
\* an EXT-X-PRELOAD-HINT of TYPE PART.
PartialSegmentLines(ls, from) ==
    {p \in from..Len(ls) : IsPartialSegmentDirective(ls[p])}

\* C34: in a media playlist returned every EXT-X-PART and every
\* EXT-X-PRELOAD-HINT of TYPE PART of the document, wherever it stands, is
\* among the partial segments of a returned segment, and none is among the
\* tags of the playlist.
C34_PartsInSegments ==
    (pc = "returned" /\ Val(result).type = MEDIA) =>
        /\ NoPartTag(Val(result).tags)
        /\ Cardinality(PartialSegmentsWhere(AnyTag))
               = Cardinality(PartialSegmentLines(lines, 2))
        /\ \A rk \in PartialSegmentsWhere(AnyTag) :
               IsPartTag(heap[ReturnedSegments.items[rk[1]]
                                  .partialSegments[rk[2]]])

(***************************************************************************)
(* C35: the id counter of a parser over its calls.                         *)
(***************************************************************************)

\* C35: over the calls on one parser, whether they return or throw, the id
\* counter never decreases and is never set back, a call that throws
\* MissingHeader leaves it as it was, and a tag once made keeps its id for
\* itself: no later tag, of the same call or of another, takes it, so the
\* playlists returned by two calls have no id in common.
C35_IdsNeverReused ==
    /\ [][(/\ globalId_' >= globalId_
           /\ \A k \in DOMAIN heap : k \in DOMAIN heap' /\ heap'[k] = heap[k]
           /\ \A k \in DOMAIN heap' \ DOMAIN heap :
                  k = globalId_ /\ globalId_' = k + 1
           /\ ((pc' = "thrown" /\ pc \in {"idle", "returned", "thrown"}
                /\ error'.code = HLS_PLAYLIST_HEADER_MISSING) =>
                   globalId_' = globalId_))]_vars
    /\ [](\A id \in DOMAIN heap : heap[id].id = id /\ id < globalId_)
    /\ []((pc = "returned" /\ previous # None) =>
             /\ PlaylistIds(Val(result)) \subseteq DOMAIN heap
             /\ PlaylistIds(Val(previous)) \subseteq DOMAIN heap
             /\ PlaylistIds(Val(previous)) \cap PlaylistIds(Val(result)) = {})

\* C35, its case: a call has returned a playlist with tags after an earlier
\* call returned one, and ids have been taken for tags that are in neither
\* (by a call that failed, or by the directive that is parsed twice).
C35_Witness ==
    /\ pc = "returned"
    /\ previous # None
    /\ PlaylistIds(Val(previous)) # {}
    /\ PlaylistIds(Val(result)) # {}
    /\ Cardinality(PlaylistIds(Val(previous)) \cup PlaylistIds(Val(result)))
           < globalId_
====
